---- MODULE Spec2Model ----
(***************************************************************************)
(* State-machine model of the shadow geometry pre-processing of            *)
(* eratosthenes (src/eratosthenes/preprocessing/shadow_geometry.py):       *)
(*   findValley, sturge / getShadowPolygon, medianFilShadows,              *)
(*   labelOccluderAndCasted and listOccluderAndCasted;                     *)
(* of the optical flow estimators of                                       *)
(* src/eratosthenes/processing/matching_tools_differential.py and of       *)
(* enhance_shadows, iterative_median_filter and L0_smoothing of            *)
(* src/dhdt/preprocessing/shadow_filters.py.                               *)
(* Arrays are functions over 0-based index ranges, as in the source.       *)
(* Every function of the source has its own specification (SpecValley,    *)
(* SpecLabeler, ...); the variables of the other functions stay idle.      *)
(***************************************************************************)
EXTENDS Integers, Sequences, FiniteSets, TLC

VARIABLES
    \* findValley
    values,      \* histogram counts, a function 0..N-1 -> Nat
    neighbors,   \* the neighbour count
    dips,        \* the returned valley locations (a sequence of base values)
    vpc,         \* "idle" | "call" | "done" | "raised"
    \* sturge / getShadowPolygon
    func,        \* the function called: "sturge" | "getShadowPolygon" | "none"
    M,           \* the intensity image that is binned (M, resp. meanIm)
    sizPix,      \* getShadowPolygon's window size
    labels,      \* the returned labelled image, pixel -> ID
    lpc,         \* "idle" | "call" | "done" | "raised"
    lerr,        \* the exception that left the function, "" when none
    \* the label IDs of an image with nComp connected components
    nComp,       \* number of components measure.label found
    compId,      \* component (1..nComp, in scan order) -> ID its pixels carry
    cpc,         \* "idle" | "call" | "done"
    \* labelOccluderAndCasted
    labeling,    \* the labelled image, pixel -> label
    sunAz,       \* the sun azimuth in degrees (a constant band)
    shadowIdx,   \* the output array, pixel -> pair number
    bndOrient,   \* castOrientation of the eroded mask
    labList,     \* the labels still to be processed, ascending
    region,      \* the locals of the current region (a record)
    x,           \* the index of the ridge pixel being processed
    rpc,         \* "idle" | "region" | "ridge" | "done"
    castLog,     \* history: one record per ridge pixel whose ray was marked
    \* listOccluderAndCasted (labels and sunAz are shared with the above)
    sunZn,       \* the band of zenith values, pixel -> degrees
    geoTransform,\* the six parameters of the raster's geotransform
    castList,    \* the output list of records
    shapeVals,   \* the values of the polygons shapes() still has to yield
    poly,        \* the locals of the current polygon (a record)
    lx,          \* the index x of the ridge pixel being processed
    lipc,        \* "idle" | "shapes" | "ridge" | "retry" | "raised" | "done"
    polyLog,     \* history: the values whose polygon was processed
    listLog,     \* history: per appended record, its ridge pixel and casted point
    \* affine_optical_flow
    identical,   \* whether I2 holds the same intensities as I1
    mnI,         \* I1.size, the number of pixels of the template
    iteration,   \* the number of iterations asked for
    it,          \* the loop index i
    pvec,        \* p, the six affine parameters
    dp,          \* the update of the last solve, or "unbound"
    p_stack,     \* the parameters after each iteration
    res,         \* the residual of each iteration
    I2_new,      \* "unbound" | "bound"
    apc,         \* "idle" | "loop" | "after" | "done" | "raised"
    aerr,        \* the error that left the function, "" when none
    ret,         \* the returned tuple, as a record
    \* simple_optical_flow
    sampleNdim,  \* sampleI.ndim
    flatIt,      \* per sample point, whether np.std(It) is 0 in its window
    iIdx,        \* the loop index
    Ugrd, Vgrd, Ueig, Veig,  \* the results
    spc,         \* "idle" | "loop" | "done" | "raised"
    serr,        \* the error that left the function, "" when none
    \* enhance_shadows
    method,      \* the method name, a sequence of characters
    kwargs,      \* the keyword arguments given, name -> value
    optimize,    \* whether the interpreter runs with -O (asserts removed)
    called,      \* the filter call made, a record, or <<>>
    epc,         \* "idle" | "start" | "done" | "raised"
    eerr,        \* the error that left the function, "" when none
    \* hough_optical_flow
    param_resol, \* the number of cells of the parameter grid per axis
    shift,       \* the integer shift <<du, dv>> between I1 and I2
    vote,        \* the accumulator, cell <<row, col>> -> vote
    ind,         \* the winning cell
    disp,        \* <<di, dj>>, in units of 1 / (param_resol - 1)
    hpc,         \* "idle" | "vote" | "peak" | "done"
    \* affine_optical_flow, history
    solved,      \* the iterations (from 1) whose lstsq gave dp and a residual
    \* affine_optical_flow, lines 236-249: the samples of one iteration
    nanA,        \* per pixel, whether its row of A = dWdp.T holds a NaN
    nanY,        \* per pixel, whether its entry of y = I_dt_new is NaN
    keptA,       \* the pixels (from 1) whose rows are left in A
    keptY,       \* the pixels (from 1) whose entries are left in y
    fpc,         \* "idle" | "start" | "filtered" | "solved" | "break" | "passed" | "raised"
    \* medianFilShadows / iterative_median_filter
    medFunc,     \* the function called
    medIn,       \* the image given (M, resp. I), one row of intensities
    siz,         \* the window size (siz, resp. tsize)
    loop,        \* the number of iterations asked for
    medI,        \* the loop index i
    Mmed,        \* the image being returned (Mmed, resp. I)
    mpc,         \* "idle" | "loop" | "done"
    \* L0_smoothing
    lamb,        \* lamb, in hundredths
    kappa,       \* kappa, in halves
    beta,        \* beta, in hundredths
    l0pc         \* "idle" | "test" | "body" | "done" | "raised"

valleyVars == <<values, neighbors, dips, vpc>>
labelerVars == <<func, M, sizPix, labels, lpc, lerr>>
idsVars == <<nComp, compId, cpc>>
ridgeVars == <<labeling, sunAz, shadowIdx, bndOrient, labList, region, x, rpc,
               castLog>>

listVars == <<sunZn, geoTransform, castList, shapeVals, poly, lx, lipc,
              polyLog, listLog>>
affineVars == <<identical, mnI, iteration, it, pvec, dp, p_stack, res,
                I2_new, apc, aerr, ret, solved>>
simpleVars == <<sampleNdim, flatIt, iIdx, Ugrd, Vgrd, Ueig, Veig, spc, serr>>
enhanceVars == <<method, kwargs, optimize, called, epc, eerr>>
houghVars == <<param_resol, shift, vote, ind, disp, hpc>>
samplesVars == <<nanA, nanY, keptA, keptY, fpc>>
medianVars == <<medFunc, medIn, siz, loop, medI, Mmed, mpc>>
l0Vars == <<lamb, kappa, beta, l0pc>>
exceptValley == <<labelerVars, idsVars, ridgeVars, listVars, affineVars,
                 simpleVars,
    enhanceVars, houghVars,
    samplesVars, medianVars, l0Vars>>
exceptLabeler == <<valleyVars, idsVars, ridgeVars, listVars, affineVars,
                  simpleVars,
    enhanceVars, houghVars,
    samplesVars, medianVars, l0Vars>>
exceptIds == <<valleyVars, labelerVars, ridgeVars, listVars, affineVars,
              simpleVars,
    enhanceVars, houghVars,
    samplesVars, medianVars, l0Vars>>
exceptRidge == <<valleyVars, labelerVars, idsVars, listVars, affineVars,
                simpleVars,
    enhanceVars, houghVars,
    samplesVars, medianVars, l0Vars>>
exceptList == <<valleyVars, labelerVars, idsVars, ridgeVars, affineVars,
               simpleVars,
    enhanceVars, houghVars,
    samplesVars, medianVars, l0Vars>>
exceptAffine == <<valleyVars, labelerVars, idsVars, ridgeVars, listVars,
                  simpleVars,
    enhanceVars, houghVars,
    samplesVars, medianVars, l0Vars>>
exceptSimple == <<valleyVars, labelerVars, idsVars, ridgeVars, listVars,
                  affineVars,
    enhanceVars, houghVars,
    samplesVars, medianVars, l0Vars>>
exceptEnhance == <<valleyVars, labelerVars, idsVars, ridgeVars, listVars,
                   affineVars, simpleVars, houghVars,
    samplesVars, medianVars, l0Vars>>
exceptHough == <<valleyVars, labelerVars, idsVars, ridgeVars, listVars,
                 affineVars, simpleVars, enhanceVars,
    samplesVars, medianVars, l0Vars>>
exceptSamples == <<valleyVars, labelerVars, idsVars, ridgeVars, listVars,
    affineVars, simpleVars, enhanceVars, houghVars, medianVars, l0Vars>>
exceptMedian == <<valleyVars, labelerVars, idsVars, ridgeVars, listVars,
    affineVars, simpleVars, enhanceVars, houghVars, samplesVars, l0Vars>>
exceptL0 == <<valleyVars, labelerVars, idsVars, ridgeVars, listVars,
    affineVars, simpleVars, enhanceVars, houghVars, samplesVars, medianVars>>

vars == <<values, neighbors, dips, vpc, func, M, sizPix, labels, lpc, lerr,
          nComp, compId, cpc, labeling, sunAz, shadowIdx, bndOrient, labList,
          region, x, rpc, castLog, sunZn, geoTransform, castList, shapeVals,
          poly, lx, lipc, polyLog, listLog, identical, mnI, iteration, it,
          pvec, dp, p_stack, res, I2_new, apc, aerr, ret, sampleNdim, flatIt,
          iIdx, Ugrd, Vgrd, Ueig, Veig, spc, serr, method, kwargs, optimize,
          called, epc, eerr, param_resol, shift, vote, ind, disp, hpc,
          solved, nanA, nanY, keptA, keptY, fpc, medFunc, medIn, siz, loop,
          medI, Mmed, mpc, lamb, kappa, beta, l0pc>>

---------------------------------------------------------------------------
(* Bounds of the model *)
MinBins == 5
MaxBins == 6
MaxCount == 4
MaxNeighbors == 2
ImgRows == 2
ImgCols == 3
MaxLevel == 4
MaxSizPix == 2
MaxSmallComp == 48
MaxWrap == 2
GridRows == 5
GridCols == 5
MaxShape == 4
MaxIter == 3
MaxSamples == 4
MaxShift == 4
MaxResol == 5
MaxPixels == 7
MedCols == 5
MaxLoop == 3
MaxLamb == 3
MaxKappa == 4

---------------------------------------------------------------------------
(* Generic helpers *)

Max(a, b) == IF a >= b THEN a ELSE b
Min(a, b) == IF a <= b THEN a ELSE b
Abs(a) == IF a < 0 THEN -a ELSE a
Sign(a) == IF a > 0 THEN 1 ELSE IF a < 0 THEN -1 ELSE 0

\* The sequence of the elements of the integer set S in increasing order.
RECURSIVE SortedSeq(_)
SortedSeq(S) ==
    IF S = {} THEN <<>>
    ELSE LET m == CHOOSE a \in S : \A b \in S : a <= b
         IN <<m>> \o SortedSeq(S \ {m})

---------------------------------------------------------------------------
(* findValley *)

\* len(values)
Len0(arr) == Cardinality(DOMAIN arr)

\* np.roll(values, s)[i] = values[(i - s) mod N]
Roll(arr, s) == [i \in DOMAIN arr |-> arr[(i - s) % Len0(arr)]]

\* wallP: row r (0-based) is np.roll(values, +(r+1)); wallM: np.roll(values, -(r+1))
WallP(arr, k) == [r \in 0..(k - 1) |-> Roll(arr, r + 1)]
WallM(arr, k) == [r \in 0..(k - 1) |-> Roll(arr, -(r + 1))]

\* np.all(np.sign(np.diff(wall, n=1, axis=0)) == +1, axis=0)
Concav(wall, k, N) ==
    [i \in 0..(N - 1) |->
        \A r \in 0..(k - 2) : Sign(wall[r + 1][i] - wall[r][i]) = 1]

\* selec = np.all(np.vstack((concavP, concavM)), axis=0)
Selec(arr, k) ==
    LET N == Len0(arr)
        concavP == Concav(WallP(arr, k), k, N)
        concavM == Concav(WallM(arr, k), k, N)
    IN [i \in 0..(N - 1) |-> concavP[i] /\ concavM[i]]

\* The indices kept by selec[neighbors-1 : -(neighbors+1)], which are also
\* those of idx = base[neighbors-1 : -(neighbors+2)] (base has N+1 entries).
SliceIdx(N, k) == {i \in 0..(N - 1) : i >= k - 1 /\ i <= N - k - 2}

\* dips = idx[selec]: the base entries of the selected indices, in order.
FindValleyDips(arr, bs, k) ==
    LET N == Len0(arr)
        sel == Selec(arr, k)
        kept == {i \in SliceIdx(N, k) : sel[i]}
        order == SortedSeq(kept)
    IN [n \in 1..Len(order) |-> bs[order[n]]]

\* concavP / concavM are only assigned when neighbors > 1; with neighbors = 1
\* line 108 reads an unassigned local.
FindValleyRaises(k) == ~(k > 1)

\* The bin edges handed to findValley in SpecValley: edge i at 2*i, so that
\* the centre of bin i is the integer 2*i + 1.
EdgeBase(N) == [i \in 0..N |-> 2 * i]

Histograms ==
    UNION {[0..(N - 1) -> 0..MaxCount] : N \in MinBins..MaxBins}

ValleyIdle ==
    /\ values = <<>>
    /\ neighbors = 0
    /\ dips = <<>>
    /\ vpc = "idle"

LabelerIdle ==
    /\ func = "none"
    /\ M = <<>>
    /\ sizPix = 0
    /\ labels = <<>>
    /\ lpc = "idle"
    /\ lerr = ""

IdsIdle ==
    /\ nComp = 0
    /\ compId = <<>>
    /\ cpc = "idle"

RidgeIdle ==
    /\ labeling = <<>>
    /\ sunAz = 0
    /\ shadowIdx = <<>>
    /\ bndOrient = <<>>
    /\ labList = <<>>
    /\ region = <<>>
    /\ x = 0
    /\ rpc = "idle"
    /\ castLog = <<>>

ListIdle ==
    /\ sunZn = <<>>
    /\ geoTransform = <<>>
    /\ castList = <<>>
    /\ shapeVals = <<>>
    /\ poly = <<>>
    /\ lx = 0
    /\ lipc = "idle"
    /\ polyLog = {}
    /\ listLog = <<>>

AffineIdle ==
    /\ identical = FALSE
    /\ mnI = 0
    /\ iteration = 0
    /\ it = 0
    /\ pvec = <<>>
    /\ dp = "unbound"
    /\ p_stack = <<>>
    /\ res = <<>>
    /\ I2_new = "unbound"
    /\ apc = "idle"
    /\ aerr = ""
    /\ ret = <<>>
    /\ solved = {}

SimpleIdle ==
    /\ sampleNdim = 0
    /\ flatIt = <<>>
    /\ iIdx = 0
    /\ Ugrd = 0 /\ Vgrd = 0 /\ Ueig = 0 /\ Veig = 0
    /\ spc = "idle"
    /\ serr = ""

EnhanceIdle ==
    /\ method = <<>>
    /\ kwargs = <<>>
    /\ optimize = FALSE
    /\ called = <<>>
    /\ epc = "idle"
    /\ eerr = ""

HoughIdle ==
    /\ param_resol = 0
    /\ shift = <<>>
    /\ vote = <<>>
    /\ ind = <<>>
    /\ disp = <<>>
    /\ hpc = "idle"

SamplesIdle ==
    /\ nanA = <<>>
    /\ nanY = <<>>
    /\ keptA = <<>>
    /\ keptY = <<>>
    /\ fpc = "idle"

MedianIdle ==
    /\ medFunc = "none"
    /\ medIn = <<>>
    /\ siz = 0
    /\ loop = 0
    /\ medI = 0
    /\ Mmed = <<>>
    /\ mpc = "idle"

L0Idle ==
    /\ lamb = 0
    /\ kappa = 0
    /\ beta = 0
    /\ l0pc = "idle"

ValleyInit ==
    /\ values \in Histograms
    /\ neighbors \in 1..MaxNeighbors
    /\ dips = <<>>
    /\ vpc = "call"
    /\ LabelerIdle
    /\ IdsIdle
    /\ RidgeIdle
    /\ ListIdle
    /\ AffineIdle
    /\ SimpleIdle
    /\ EnhanceIdle
    /\ HoughIdle
    /\ SamplesIdle
    /\ MedianIdle
    /\ L0Idle

FindValleyReturn ==
    /\ vpc = "call"
    /\ ~FindValleyRaises(neighbors)
    /\ dips' = FindValleyDips(values, EdgeBase(Len0(values)), neighbors)
    /\ vpc' = "done"
    /\ UNCHANGED <<values, neighbors>>
    /\ UNCHANGED exceptValley

FindValleyRaise ==
    /\ vpc = "call"
    /\ FindValleyRaises(neighbors)
    /\ vpc' = "raised"
    /\ UNCHANGED <<values, neighbors, dips>>
    /\ UNCHANGED exceptValley

ValleyNext == FindValleyReturn \/ FindValleyRaise

SpecValley == ValleyInit /\ [][ValleyNext]_vars

---------------------------------------------------------------------------
(* Claims about findValley *)

\* The bins that are strict local minima over k neighbours on each side:
\* the counts strictly decrease over bins i-k..i and strictly increase over
\* bins i..i+k.
StrictValleyBins(arr, k) ==
    {i \in DOMAIN arr :
        /\ i - k >= 0
        /\ i + k <= Len0(arr) - 1
        /\ \A j \in 1..k : /\ arr[i - j] > arr[i - j + 1]
                           /\ arr[i + j] > arr[i + j - 1]}

DipSet == {dips[n] : n \in DOMAIN dips}

\* The bins whose base entry findValley returned.
DipBins ==
    LET bs == EdgeBase(Len0(values))
    IN {i \in DOMAIN values : bs[i] \in DipSet}

StrictlyIncreasing(arr) ==
    \A i \in DOMAIN arr : i + 1 \in DOMAIN arr => arr[i] < arr[i + 1]
StrictlyDecreasing(arr) ==
    \A i \in DOMAIN arr : i + 1 \in DOMAIN arr => arr[i] > arr[i + 1]

\* C4: findValley returns exactly the bins whose count is a strict local
\* minimum over k neighbours on each side (the bin is identified by the
\* base entry returned for it).
C4_ValleysAreStrictLocalMinima ==
    vpc = "done" => DipBins = StrictValleyBins(values, neighbors)

\* C5: for a strictly monotonic histogram findValley with neighbour count 2
\* returns nothing.
C5_MonotonicHasNoValley ==
    (vpc = "done" /\ neighbors = 2
       /\ (StrictlyIncreasing(values) \/ StrictlyDecreasing(values)))
    => dips = <<>>

---------------------------------------------------------------------------
(* sturge / getShadowPolygon *)

Pixels == (0..(ImgRows - 1)) \X (0..(ImgCols - 1))

\* Position of a pixel in the raster scan (np.reshape(M, -1), np.nonzero).
ScanIdx(p) == p[1] * ImgCols + p[2]

Images == [Pixels -> 0..MaxLevel]

\* np.ceil(np.divide(np.nanprod(M.shape), sizPix))
CeilDiv(a, b) == (a + b - 1) \div b

\* np.int(np.ceil(1.6 * (math.log2(mn) + 1))): the least b with
\* mn <= 2^(5b/8 - 1), tabulated for the sizes of the model.
SturgeBins(mn) ==
    CASE mn <= 1 -> 2
      [] mn = 2 -> 4
      [] mn \in 3..4 -> 5
      [] mn \in 5..6 -> 6
      [] mn \in 7..10 -> 7
      [] mn \in 11..16 -> 8
      [] mn \in 17..24 -> 9
      [] OTHER -> 10

ImgMin(img) == CHOOSE a \in {img[p] : p \in Pixels} :
                   \A q \in Pixels : a <= img[q]
ImgMax(img) == CHOOSE a \in {img[p] : p \in Pixels} :
                   \A q \in Pixels : a >= img[q]

\* np.histogram's range, doubled to stay in the integers: (min, max), or
\* (min - 0.5, max + 0.5) for a constant image.
HistFirst2(img) ==
    IF ImgMin(img) = ImgMax(img) THEN 2 * ImgMin(img) - 1 ELSE 2 * ImgMin(img)
HistWidth2(img) ==
    IF ImgMin(img) = ImgMax(img) THEN 2 ELSE 2 * (ImgMax(img) - ImgMin(img))

\* The bin of intensity v among N equal bins; the last bin is closed.
BinOf(img, N, v) ==
    Min(((2 * v - HistFirst2(img)) * N) \div HistWidth2(img), N - 1)

\* values of np.histogram(np.reshape(img, -1), bins=N)
HistValues(img, N) ==
    [i \in 0..(N - 1) |->
        Cardinality({p \in Pixels : BinOf(img, N, img[p]) = i})]

\* base of np.histogram: the N+1 bin edges, each multiplied by 2*N.
HistBase(img, N) ==
    [i \in 0..N |-> HistFirst2(img) * N + i * HistWidth2(img)]

SeqMax(sq) == CHOOSE a \in {sq[n] : n \in DOMAIN sq} :
                  \A n \in DOMAIN sq : a >= sq[n]

\* dips = findValley(values, base, 2)
LabelerDips(img, N) == FindValleyDips(HistValues(img, N), HistBase(img, N), 2)

\* imSeparation = M > val, with val = max(dips) (an edge multiplied by 2*N)
ImSeparation(img, N) ==
    LET val == SeqMax(LabelerDips(img, N))
    IN {p \in Pixels : 2 * N * img[p] > val}

\* 8-connectivity, the default of measure.label for a 2-D image
Adjacent(p, q) == Abs(p[1] - q[1]) <= 1 /\ Abs(p[2] - q[2]) <= 1

RECURSIVE Grow(_, _)
Grow(S, fg) ==
    LET T == S \cup {q \in fg : \E p \in S : Adjacent(p, q)}
    IN IF T = S THEN S ELSE Grow(T, fg)

\* The first pixel, in scan order, of the component of p
CompRoot(p, fg) ==
    LET comp == Grow({p}, fg)
    IN CHOOSE a \in {ScanIdx(q) : q \in comp} :
           \A q \in comp : a <= ScanIdx(q)

\* measure.label(imSeparation, background=0): components numbered 1, 2, ...
\* in the order the scan meets them; background 0.
MeasureLabel(fg) ==
    LET roots == {CompRoot(p, fg) : p \in fg}
    IN [p \in Pixels |->
          IF p \in fg
            THEN Cardinality({a \in roots : a <= CompRoot(p, fg)})
            ELSE 0]

Int16Bits == 16

\* np.int16(x): the low 16 bits of x, read as a signed number
ToInt16(n) ==
    LET w == 2 ^ Int16Bits
        u == n % w
    IN IF u >= w \div 2 THEN u - w ELSE u

\* The bin count: sturge bins M.size samples, getShadowPolygon the number
\* of superpixels mn.
LabelerBins(f, sp) ==
    IF f = "sturge" THEN SturgeBins(ImgRows * ImgCols)
                    ELSE SturgeBins(CeilDiv(ImgRows * ImgCols, sp))

LabelerInit ==
    /\ func \in {"sturge", "getShadowPolygon"}
    /\ M \in Images
    /\ sizPix \in (IF func = "sturge" THEN {0} ELSE 1..MaxSizPix)
    /\ labels = <<>>
    /\ lpc = "call"
    /\ lerr = ""
    /\ ValleyIdle
    /\ IdsIdle
    /\ RidgeIdle
    /\ ListIdle
    /\ AffineIdle
    /\ SimpleIdle
    /\ EnhanceIdle
    /\ HoughIdle
    /\ SamplesIdle
    /\ MedianIdle
    /\ L0Idle

\* sturge, lines 78-86, when findValley found a valley
SturgeReturn ==
    /\ lpc = "call"
    /\ func = "sturge"
    /\ LabelerDips(M, LabelerBins(func, sizPix)) # <<>>
    /\ labels' = MeasureLabel(ImSeparation(M, LabelerBins(func, sizPix)))
    /\ lpc' = "done"
    /\ UNCHANGED <<func, M, sizPix, lerr>>
    /\ UNCHANGED exceptLabeler

\* getShadowPolygon, lines 43-54, when findValley found a valley
GetShadowPolygonReturn ==
    /\ lpc = "call"
    /\ func = "getShadowPolygon"
    /\ LabelerDips(M, LabelerBins(func, sizPix)) # <<>>
    /\ labels' =
         LET lab == MeasureLabel(ImSeparation(M, LabelerBins(func, sizPix)))
         IN [p \in Pixels |-> ToInt16(lab[p])]
    /\ lpc' = "done"
    /\ UNCHANGED <<func, M, sizPix, lerr>>
    /\ UNCHANGED exceptLabeler

\* val = max(dips) on an empty array (lines 47 and 83)
MaxOfEmptyRaises ==
    /\ lpc = "call"
    /\ LabelerDips(M, LabelerBins(func, sizPix)) = <<>>
    /\ lerr' = "ValueError"
    /\ lpc' = "raised"
    /\ UNCHANGED <<func, M, sizPix, labels>>
    /\ UNCHANGED exceptLabeler

LabelerNext == SturgeReturn \/ GetShadowPolygonReturn \/ MaxOfEmptyRaises

SpecLabeler == LabelerInit /\ [][LabelerNext]_vars

---------------------------------------------------------------------------
(* The label IDs getShadowPolygon returns for an image with many components *)

\* The component counts of the model: small ones, and those around the
\* multiples of 2^15 (images with isolated foreground pixels).
CompCounts ==
    (1..MaxSmallComp)
      \cup {k * 2 ^ (Int16Bits - 1) + d : k \in 1..MaxWrap, d \in (-2)..2}

IdsInit ==
    /\ nComp \in CompCounts
    /\ compId = <<>>
    /\ cpc = "call"
    /\ ValleyIdle
    /\ LabelerIdle
    /\ RidgeIdle
    /\ ListIdle
    /\ AffineIdle
    /\ SimpleIdle
    /\ EnhanceIdle
    /\ HoughIdle
    /\ SamplesIdle
    /\ MedianIdle
    /\ L0Idle

\* labels = measure.label(...); labels = np.int16(labels), lines 51-53:
\* measure.label numbers the components 1..nComp, the cast is elementwise.
LabelAndCast ==
    /\ cpc = "call"
    /\ compId' = [k \in 1..nComp |-> ToInt16(k)]
    /\ cpc' = "done"
    /\ UNCHANGED nComp
    /\ UNCHANGED exceptIds

IdsNext == LabelAndCast

SpecLabelIds == IdsInit /\ [][IdsNext]_vars

---------------------------------------------------------------------------
(* Claims about sturge / getShadowPolygon *)

NoValleyFound == LabelerDips(M, LabelerBins(func, sizPix)) = <<>>

\* C6: when findValley returns no valley, sturge and getShadowPolygon fail
\* with the dedicated ThresholdNotFound error and return no labelled mask.
C6_NoValleyRaisesThresholdNotFound ==
    (lpc # "call" /\ lpc # "idle" /\ NoValleyFound)
    => (lpc = "raised" /\ lerr = "ThresholdNotFound" /\ labels = <<>>)

\* An image of constant dark and constant bright blocks: two levels.
TwoLevel(img) == Cardinality({img[p] : p \in Pixels}) = 2

\* C7: for an image of constant bright and constant dark blocks the pixels
\* that receive positive label IDs are exactly the dark pixels, and every
\* bright pixel receives label 0.
C7_TwoLevelImageLabelsDarkBlocks ==
    (lpc # "call" /\ lpc # "idle" /\ TwoLevel(M))
    => (/\ lpc = "done"
        /\ \A p \in Pixels : (labels[p] > 0) <=> (M[p] = ImgMin(M)))

\* C8: after the conversion to 16-bit signed integers every component
\* carries a positive ID and no two components share an ID, for any number
\* of components.
C8_Int16LabelsPositiveAndDistinct ==
    cpc = "done"
    => (/\ \A k \in 1..nComp : compId[k] > 0
        /\ Cardinality({compId[k] : k \in 1..nComp}) = nComp)

---------------------------------------------------------------------------
(* labelOccluderAndCasted *)

Grid == (0..(GridRows - 1)) \X (0..(GridCols - 1))

\* The sun azimuths of the model, degrees in [-180, 180]
AzSet == {0, 45, 90, 135, 180, -45, -90, -135}

TrigScale == 10000

\* math.cos(math.radians(az)) and math.sin(math.radians(az)), times TrigScale.
\* The doubles for 90 and 180 degrees are below 1e-15 in size: they round
\* to 0 in every product the code rounds, and the comparisons dI > dJ of
\* the doubles come out as those of these integers.
Cos10k(az) ==
    CASE az = 0 -> 10000
      [] az \in {45, -45} -> 7071
      [] az \in {90, -90} -> 0
      [] az \in {135, -135} -> -7071
      [] OTHER -> -10000
Sin10k(az) ==
    CASE az \in {0, 180} -> 0
      [] az \in {45, 135} -> 7071
      [] az = 90 -> 10000
      [] az \in {-45, -135} -> -7071
      [] OTHER -> -10000

\* np.round(a / TrigScale): to the nearest integer, halves to even
RoundScaled(a) ==
    LET q == a \div TrigScale
        r == a % TrigScale
    IN IF 2 * r < TrigScale THEN q
       ELSE IF 2 * r > TrigScale THEN q + 1
       ELSE IF q % 2 = 0 THEN q ELSE q + 1

SetMin(S) == CHOOSE a \in S : \A b \in S : a <= b
SetMax(S) == CHOOSE a \in S : \A b \in S : a >= b

\* ndimage.binary_erosion with the default cross-shaped structure and
\* border_value 0: a pixel stays when its four neighbours are set.
Erode4(S) ==
    {p \in S : /\ <<p[1] - 1, p[2]>> \in S
               /\ <<p[1] + 1, p[2]>> \in S
               /\ <<p[1], p[2] - 1>> \in S
               /\ <<p[1], p[2] + 1>> \in S}

Ind(S, r, c) == IF <<r, c>> \in S THEN 1 ELSE 0

\* The gradient of the mask S along the columns and along the rows
\* (3 x 3 difference operator with weights 1, 2, 1)
GradCol(S, p) ==
    (Ind(S, p[1] - 1, p[2] + 1) - Ind(S, p[1] - 1, p[2] - 1))
      + 2 * (Ind(S, p[1], p[2] + 1) - Ind(S, p[1], p[2] - 1))
      + (Ind(S, p[1] + 1, p[2] + 1) - Ind(S, p[1] + 1, p[2] - 1))
GradRow(S, p) ==
    (Ind(S, p[1] + 1, p[2] - 1) - Ind(S, p[1] - 1, p[2] - 1))
      + 2 * (Ind(S, p[1] + 1, p[2]) - Ind(S, p[1] - 1, p[2]))
      + (Ind(S, p[1] + 1, p[2] + 1) - Ind(S, p[1] - 1, p[2] + 1))

\* castOrientation(I, sunAz): the directional gradient of the mask towards
\* the sun; positive on the sun-facing edge, negative on the far edge.
CastOrientation(S, az) ==
    [p \in Grid |-> Cos10k(az) * GradRow(S, p) - Sin10k(az) * GradCol(S, p)]

Rect(r0, r1, c0, c1) == (r0..r1) \X (c0..c1)

Rects ==
    {Rect(r0, r1, c0, c1) :
        <<r0, r1, c0, c1>> \in
            {t \in (0..(GridRows - 1)) \X (0..(GridRows - 1))
                     \X (0..(GridCols - 1)) \X (0..(GridCols - 1)) :
                t[1] <= t[2] /\ t[3] <= t[4]}}

FirstScan(S) == SetMin({p[1] * GridCols + p[2] : p \in S})

Apart(A, B) == \A p \in A, q \in B : ~Adjacent(p, q)

\* The labelled images of the model: one rectangular region, or two
\* regions (at least 2 x 2) that do not touch, numbered in scan order as
\* measure.label numbers them.
LabelImages ==
    {[p \in Grid |-> IF p \in A THEN 1 ELSE 0] : A \in Rects}
      \cup
    {[p \in Grid |-> IF p \in AB[1] THEN 1 ELSE IF p \in AB[2] THEN 2 ELSE 0] :
        AB \in {ab \in Rects \X Rects :
                  /\ \A k \in 1..2 :
                        \E p \in ab[k] : <<p[1] + 1, p[2] + 1>> \in ab[k]
                  /\ Apart(ab[1], ab[2])
                  /\ FirstScan(ab[1]) < FirstScan(ab[2])}}

\* labList = np.unique(labeling); labList = labList[labList != 0]
LabList(lab) == SortedSeq({lab[p] : p \in Grid} \ {0})

RidgeInit ==
    /\ labeling \in LabelImages
    /\ sunAz \in AzSet
    /\ shadowIdx = [p \in Grid |-> 0]
    /\ bndOrient = CastOrientation(Erode4({p \in Grid : labeling[p] >= 1}), sunAz)
    /\ labList = LabList(labeling)
    /\ region = <<>>
    /\ x = 0
    /\ rpc = "region"
    /\ castLog = <<>>
    /\ ValleyIdle
    /\ LabelerIdle
    /\ IdsIdle
    /\ ListIdle
    /\ AffineIdle
    /\ SimpleIdle
    /\ EnhanceIdle
    /\ HoughIdle
    /\ SamplesIdle
    /\ MedianIdle
    /\ L0Idle

\* The pixels of the sub-image in the order of np.nonzero (row-major)
ScanSeq(S, n) ==
    LET order == SortedSeq({q[1] * n + q[2] : q \in S})
    IN [k \in 1..Len(order) |-> <<order[k] \div n, order[k] % n>>]

\* Lines 142-186: the locals of the region with label i
RegionOf(i) ==
    LET selec == {p \in Grid : labeling[p] = i}
        labImin == SetMin({p[1] : p \in selec})
        labImax == SetMax({p[1] : p \in selec})
        labJmin == SetMin({p[2] : p \in selec})
        labJmax == SetMax({p[2] : p \in selec})
        \* selec[labImin:labImax, labJmin:labJmax]
        m == labImax - labImin
        n == labJmax - labJmin
        subMsk == {<<p[1] - labImin, p[2] - labJmin>> :
                      p \in {q \in selec : q[1] < labImax /\ q[2] < labJmax}}
        subBound == subMsk \ Erode4(subMsk)
        subOrient == [q \in (0..(m - 1)) \X (0..(n - 1)) |->
                        IF q \in subBound
                          THEN Sign(bndOrient[<<q[1] + labImin, q[2] + labJmin>>])
                          ELSE 0]
        subWhe == ScanSeq(subMsk, n)
    IN [i |-> i, labImin |-> labImin, labJmin |-> labJmin, m |-> m, n |-> n,
        subWhe |-> subWhe,
        ridge |-> SelectSeq(subWhe, LAMBDA q : subOrient[q] = 1),
        cast |-> {q \in subMsk : subOrient[q] = -1}]

BeginRegion ==
    /\ rpc = "region"
    /\ labList # <<>>
    /\ region' = RegionOf(Head(labList))
    /\ labList' = Tail(labList)
    /\ x' = 0
    /\ rpc' = "ridge"
    /\ UNCHANGED <<labeling, sunAz, shadowIdx, bndOrient, castLog>>
    /\ UNCHANGED exceptRidge

\* Lines 194-210: the pixels (rr, cc) of the cast line of ridge pixel
\* (ridgeI, ridgeJ) in an m x n sub-image
RayPixels(ridgeI, ridgeJ, az, m, n) ==
    LET dI == -Cos10k(az)
        dJ == -Sin10k(az)
    IN IF Abs(az) > 90
         THEN IF dI > dJ
                THEN {<<r, RoundScaled((ridgeI - 1 - r) * dJ) + ridgeJ>> :
                         r \in 0..(ridgeI - 1)}
                ELSE {<<RoundScaled((ridgeJ - 1 - c) * dI) + ridgeI, c>> :
                         c \in 0..(ridgeJ - 1)}
         ELSE IF dI > dJ
                THEN {<<r, RoundScaled(r * dJ) + ridgeJ>> : r \in ridgeI..(m - 1)}
                ELSE {<<RoundScaled(c * dI) + ridgeI, c>> : c \in ridgeJ..(n - 1)}

\* IN = (cc >= 0) & (cc <= n) & (rr >= 0) & (rr <= m)
InsideSub(q, m, n) == q[2] >= 0 /\ q[2] <= n /\ q[1] >= 0 /\ q[1] <= m

\* The part of the cast line that subCast[rr, cc] = 1 is asked to mark
MarkedRay ==
    LET rg == region.ridge[x + 1]
    IN {q \in RayPixels(rg[1], rg[2], sunAz, region.m, region.n) :
           InsideSub(q, region.m, region.n)}

\* subCast[rr, cc] = 1 raises IndexError for an index m or n
MarkRaises == \E q \in MarkedRay : q[1] >= region.m \/ q[2] >= region.n

\* castI, castJ: the receiver pixels on the cast line, in np.nonzero order
CastHits == SelectSeq(region.subWhe, LAMBDA q : q \in region.cast /\ q \in MarkedRay)

SqDist(q, rg) == (q[1] - rg[1]) * (q[1] - rg[1]) + (q[2] - rg[2]) * (q[2] - rg[2])

\* Mutant of ClosestCasted: the distance selection of lines 233-239 is
\* left out and the first hit in scan order is taken.
ClosestCasted_FirstHit(hits, rg) == hits[1]

\* Lines 233-239 and the index [0] of line 245: the casted pixel chosen
\* among the hits (a non-empty sequence)
ClosestCasted(hits, rg) ==
    IF Len(hits) > 1
      THEN LET dmin == SetMin({SqDist(hits[k], rg) : k \in DOMAIN hits})
           IN SelectSeq(hits, LAMBDA q : SqDist(q, rg) = dmin)[1]
      ELSE hits[1]

ToImage(q) == <<q[1] + region.labImin, q[2] + region.labJmin>>

InRidgeLoop == rpc = "ridge" /\ x < Len(region.ridge)

\* IN.any() is false: nothing is marked and nothing recorded
RayOutside ==
    /\ InRidgeLoop
    /\ MarkedRay = {}
    /\ x' = x + 1
    /\ UNCHANGED <<labeling, sunAz, shadowIdx, bndOrient, labList, region, rpc,
                   castLog>>
    /\ UNCHANGED exceptRidge

\* Lines 221-224: the IndexError of the marking skips the ridge pixel
RayIndexError ==
    /\ InRidgeLoop
    /\ MarkedRay # {}
    /\ MarkRaises
    /\ x' = x + 1
    /\ UNCHANGED <<labeling, sunAz, shadowIdx, bndOrient, labList, region, rpc,
                   castLog>>
    /\ UNCHANGED exceptRidge

LogEntry(hits, casted) ==
    [lab |-> region.i, x |-> x, ridge |-> ToImage(region.ridge[x + 1]),
     hits |-> [k \in DOMAIN hits |-> ToImage(hits[k])], casted |-> casted]

\* The cast line holds no receiver pixel: len(castI) = 0
RayNoCast ==
    /\ InRidgeLoop
    /\ MarkedRay # {}
    /\ ~MarkRaises
    /\ CastHits = <<>>
    /\ x' = x + 1
    /\ castLog' = Append(castLog, LogEntry(<<>>, <<>>))
    /\ UNCHANGED <<labeling, sunAz, shadowIdx, bndOrient, labList, region, rpc>>
    /\ UNCHANGED exceptRidge

\* Lines 241-245: write out the pair with number x
WriteOut(ridgePix, castPix) ==
    [[shadowIdx EXCEPT ![ridgePix] = ToInt16(x)] EXCEPT ![castPix] = ToInt16(-x)]

RayRecord ==
    /\ InRidgeLoop
    /\ MarkedRay # {}
    /\ ~MarkRaises
    /\ CastHits # <<>>
    /\ LET casted == ToImage(ClosestCasted(CastHits, region.ridge[x + 1]))
       IN /\ shadowIdx' = WriteOut(ToImage(region.ridge[x + 1]), casted)
          /\ castLog' = Append(castLog, LogEntry(CastHits, casted))
    /\ x' = x + 1
    /\ UNCHANGED <<labeling, sunAz, bndOrient, labList, region, rpc>>
    /\ UNCHANGED exceptRidge

EndRegion ==
    /\ rpc = "ridge"
    /\ x >= Len(region.ridge)
    /\ rpc' = "region"
    /\ UNCHANGED <<labeling, sunAz, shadowIdx, bndOrient, labList, region, x,
                   castLog>>
    /\ UNCHANGED exceptRidge

ReturnShadowIdx ==
    /\ rpc = "region"
    /\ labList = <<>>
    /\ rpc' = "done"
    /\ UNCHANGED <<labeling, sunAz, shadowIdx, bndOrient, labList, region, x,
                   castLog>>
    /\ UNCHANGED exceptRidge

RidgeNext ==
    \/ BeginRegion
    \/ RayOutside
    \/ RayIndexError
    \/ RayNoCast
    \/ RayRecord
    \/ EndRegion
    \/ ReturnShadowIdx

SpecRidge == RidgeInit /\ [][RidgeNext]_vars

---------------------------------------------------------------------------
(* Claims about labelOccluderAndCasted *)

\* The ridge pixels (image coordinates) whose cast line held a receiver pixel
HitRidges ==
    {castLog[k].ridge : k \in {j \in DOMAIN castLog : castLog[j].hits # <<>>}}

\* C1: the pairs readable from the returned array are exactly the ridge
\* pixels whose ray has at least one receiver-boundary hit, the first ridge
\* pixel of a region included: each carries a positive number and a casted
\* pixel carries the negated number.
C1_OnePairPerRidgeWithHit ==
    rpc = "done"
    => /\ {p \in Grid : shadowIdx[p] > 0} = HitRidges
       /\ \A p \in HitRidges : \E q \in Grid : shadowIdx[q] = -shadowIdx[p]

ImageSqDist(p, q) ==
    (p[1] - q[1]) * (p[1] - q[1]) + (p[2] - q[2]) * (p[2] - q[2])

\* c is a hit of minimum Euclidean distance to the ridge pixel and, among
\* the hits at that distance, the first in row-major order
NearestFirst(c, hits, rg) ==
    /\ \E k \in DOMAIN hits : hits[k] = c
    /\ \A k \in DOMAIN hits :
          /\ ImageSqDist(c, rg) <= ImageSqDist(hits[k], rg)
          /\ ImageSqDist(c, rg) = ImageSqDist(hits[k], rg)
               => (c[1] < hits[k][1]
                     \/ (c[1] = hits[k][1] /\ c[2] <= hits[k][2]))

\* C2: whenever a ridge pixel's ray hits receiver-boundary pixels, the
\* pixel that receives the negated pair number is a hit of minimum
\* Euclidean distance to the ridge pixel, the first one in row-major order
\* among equidistant hits.
C2_CastedIsNearestHit ==
    [][(Len(castLog') = Len(castLog) + 1 /\ castLog'[Len(castLog')].hits # <<>>)
        => LET rec == castLog'[Len(castLog')]
           IN /\ NearestFirst(rec.casted, rec.hits, rec.ridge)
              /\ shadowIdx'[rec.casted] = -rec.x
              /\ \A p \in Grid : shadowIdx'[p] # shadowIdx[p]
                                   => p \in {rec.ridge, rec.casted}]_vars

\* C2 witness: a ray with several hits at different distances has been
\* resolved and its pair is in the array.
C2_Witness ==
    \E k \in DOMAIN castLog :
        /\ Len(castLog[k].hits) >= 2
        /\ castLog[k].x >= 1
        /\ castLog[k].casted # castLog[k].hits[1]
        /\ shadowIdx[castLog[k].casted] = -castLog[k].x
        /\ shadowIdx[castLog[k].ridge] = castLog[k].x

\* The image holds a single square region of side >= 3
SingleSquare ==
    LET A == {p \in Grid : labeling[p] >= 1}
    IN /\ \A p \in Grid : labeling[p] \in {0, 1}
       /\ \E r0 \in 0..(GridRows - 1), c0 \in 0..(GridCols - 1), k \in 2..GridRows :
             A = Rect(r0, r0 + k, c0, c0 + k)

RidgePixels == {ToImage(region.ridge[k]) : k \in DOMAIN region.ridge}
CastPixels == {ToImage(q) : q \in region.cast}

\* C3: for a single square region, with sun azimuth 0 every north-edge
\* ridge pixel is paired with the nearest receiver pixel of its column
\* below it, and with sun azimuth 90 every west-side ridge pixel is paired
\* with a casted pixel in a column to its right.
C3_CastedAwayFromSun ==
    (rpc = "done" /\ SingleSquare)
    => /\ sunAz = 0 =>
            \A p \in {q \in RidgePixels : q[1] = region.labImin} :
               /\ shadowIdx[p] > 0
               /\ \E c \in CastPixels :
                     /\ shadowIdx[c] = -shadowIdx[p]
                     /\ c[2] = p[2] /\ c[1] > p[1]
                     /\ \A d \in CastPixels :
                           (d[2] = p[2] /\ d[1] > p[1]) => c[1] <= d[1]
       /\ sunAz = 90 =>
            \A p \in {q \in RidgePixels : q[2] = region.labJmin} :
               /\ shadowIdx[p] > 0
               /\ \E c \in Grid : shadowIdx[c] = -shadowIdx[p] /\ c[2] > p[2]

\* ------------------------------------------------------------------
\* listOccluderAndCasted(labels, sunZn, sunAz, geoTransform)
\* ------------------------------------------------------------------

\* The sun stands on a grid axis in this part of the model, so that the
\* cast line runs along the grid line through the corner of the ridge
\* pixel and its intersection with the polygon has integer coordinates.
ListAzSet == {0, 90, 180, -90}

ShapeWindow == (1..(GridRows - 2)) \X (1..(GridCols - 2))

\* The regions of the model: 8-connected sets of at most MaxShape pixels
\* that stay clear of the border of the image
Shapes ==
    {S \in SUBSET ShapeWindow :
        /\ S # {}
        /\ Cardinality(S) <= MaxShape
        /\ Grow({CHOOSE p \in S : TRUE}, S) = S}

\* The labelled images: one region, numbered 1, or the corner pixel
\* numbered 1 and a region numbered 2, as measure.label numbers them.
ListImages ==
    {[p \in Grid |-> IF p \in S THEN 1 ELSE 0] : S \in Shapes}
      \cup
    {[p \in Grid |-> IF p = <<0, 0>> THEN 1 ELSE IF p \in S THEN 2 ELSE 0] :
        S \in {T \in Shapes : Apart({<<0, 0>>}, T)}}

\* North-up and rotated geotransforms
GeoTransforms ==
    {<<100, 10, 0, 500, 0, -10>>,
     <<100, 10, 3, 500, 7, -20>>}

\* A band of zenith values that differs from pixel to pixel
SunZnBands == {[p \in Grid |-> z0 + p[1] * GridCols + p[2]] : z0 \in {20}}

\* Line 272: msk = labels > 1
ListMsk(lab) == {p \in Grid : lab[p] > 1}

\* Lines 274-275: mskOrient = np.sign(castOrientation(msk, sunAz))
MskOrient(lab, az) ==
    LET o == CastOrientation(ListMsk(lab), az)
    IN [p \in Grid |-> Sign(o[p])]

\* Line 279: shapes(labels, mask=msk, connectivity=8) yields one polygon
\* for each connected region of one value inside the mask.
ShapeValues(lab) == SortedSeq({lab[p] : p \in ListMsk(lab)})

\* Lines 287-289: binary_erosion with the full 3 x 3 structure
Erode8(S) ==
    {p \in S : \A dr \in -1..1, dc \in -1..1 : <<p[1] + dr, p[2] + dc>> \in S}

\* Lines 285-294: the locals of the polygon with value val
PolygonOf(val) ==
    LET polyRast == {p \in Grid : labels[p] = val}
        polyBoun == polyRast \ Erode8(polyRast)
        orient == MskOrient(labels, sunAz)
    IN [val |-> val,
        polygoon |-> polyRast,
        repaired |-> FALSE,
        ridge |-> ScanSeq({p \in polyBoun : orient[p] = 1}, GridCols)]

\* Lines 299-307: the cast line starts in the corner (x, y) = (ridgeJ,
\* ridgeI) of the ridge pixel and runs 1e4 pixels towards
\* (-sin(az), cos(az)); cornerwise, step k of it is the point below.
RayStep(az) == <<-(Sin10k(az) \div TrigScale), Cos10k(az) \div TrigScale>>
RayPoint(ridgeI, ridgeJ, az, k) ==
    <<ridgeJ + k * RayStep(az)[1], ridgeI + k * RayStep(az)[2]>>

\* The number of unit steps of the cast line inside the image
RaySteps(ridgeI, ridgeJ, az) ==
    SetMax({k \in 0..(GridRows + GridCols) :
              LET c == RayPoint(ridgeI, ridgeJ, az, k)
              IN c[1] \in 0..GridCols /\ c[2] \in 0..GridRows})

\* The polygon is the union of the unit squares [c, c+1] x [r, r+1] of
\* its pixels <<r, c>>.  The unit piece of a grid line between the
\* corners a and b lies in it when one of the two pixels along the piece
\* belongs to the polygon.
PieceInside(P, a, b) ==
    IF a[1] = b[1]
      THEN LET y0 == Min(a[2], b[2])
           IN <<y0, a[1] - 1>> \in P \/ <<y0, a[1]>> \in P
      ELSE LET x0 == Min(a[1], b[1])
           IN <<a[2] - 1, x0>> \in P \/ <<a[2], x0>> \in P

\* Line 311: polygoon.intersection(castLine), as the sequence of its
\* parts along the line: each part holds the coordinates of a point or
\* of the two ends of a stretch of the line inside the polygon.  Only
\* the start of the line can be an isolated point: a pixel that touches
\* the grid line shares a whole side with it.
Intersection(P, ridgeI, ridgeJ, az) ==
    LET L == RaySteps(ridgeI, ridgeJ, az)
        pt(k) == RayPoint(ridgeI, ridgeJ, az, k)
        in(k) == k >= 0 /\ k < L /\ PieceInside(P, pt(k), pt(k + 1))
        starts == SortedSeq({k \in 0..(L - 1) : in(k) /\ ~in(k - 1)})
        end(a) == SetMin({b \in (a + 1)..L : ~in(b)})
        runs == [n \in 1..Len(starts) |-> <<pt(starts[n]), pt(end(starts[n]))>>]
    IN IF in(0) THEN runs ELSE <<(<<pt(0)>>)>> \o runs

\* castEnd.geom_type
GeomType(parts) ==
    LET points == {n \in 1..Len(parts) : Len(parts[n]) = 1}
        lines == {n \in 1..Len(parts) : Len(parts[n]) = 2}
    IN CASE Len(parts) = 1 /\ lines = {} -> "Point"
         [] Len(parts) = 1 /\ points = {} -> "LineString"
         [] Len(parts) > 1 /\ points = {} -> "MultiLineString"
         [] OTHER -> "GeometryCollection"

RECURSIVE Coords(_)
Coords(parts) ==
    IF parts = <<>> THEN <<>> ELSE Head(parts) \o Coords(Tail(parts))

\* Lines 317-335: castEnd as a list of coordinates
CastEnd(parts) ==
    CASE GeomType(parts) = "LineString" -> parts[1]
      [] GeomType(parts) = "MultiLineString" -> Coords(parts)
      [] GeomType(parts) = "GeometryCollection" -> Coords(parts)
      [] OTHER -> <<>>

\* float('Inf'), above the square of every distance in the image
InfDist == 2 * (GridRows + GridCols) * (GridRows + GridCols)

\* Lines 341-344: the distances to the occluder (squared), zero turned
\* into Inf
Dists(castEnd, ridgeI, ridgeJ) ==
    [n \in 1..Len(castEnd) |->
        LET d == (castEnd[n][1] - ridgeJ) * (castEnd[n][1] - ridgeJ)
                   + (castEnd[n][2] - ridgeI) * (castEnd[n][2] - ridgeI)
        IN IF d = 0 THEN InfDist ELSE d]

\* Line 345: castIdx = dists.index(min(dists)), counted from 1 here
CastIdx(dists) ==
    LET least == SetMin({dists[n] : n \in 1..Len(dists)})
    IN SetMin({n \in 1..Len(dists) : dists[n] = least})

\* geoTransform[k], counted from 0 as in the source
GT(k) == geoTransform[k + 1]

\* Lines 349-356: the ridge pixel in map coordinates
RidgeXY(ridgeI, ridgeJ) ==
    <<ridgeI * GT(2) + ridgeJ * GT(1) + GT(0),
      ridgeI * GT(5) + ridgeJ * GT(4) + GT(3)>>

\* The variant that takes the casted point as (row, column)
CastXY_RowFirst(casted) ==
    <<casted[0 + 1] * GT(2) + casted[1 + 1] * GT(1) + GT(0),
      casted[0 + 1] * GT(5) + casted[1 + 1] * GT(4) + GT(3)>>

\* Lines 357-364: the casted point, casted = (x, y), in map coordinates;
\* casted[0] is casted[1] here, tuples count from 1
CastXY(casted) ==
    <<casted[1 + 1] * GT(2) + casted[0 + 1] * GT(1) + GT(0),
      casted[1 + 1] * GT(5) + casted[0 + 1] * GT(4) + GT(3)>>

ListInit ==
    /\ labels \in ListImages
    /\ sunAz \in ListAzSet
    /\ sunZn \in SunZnBands
    /\ geoTransform \in GeoTransforms
    /\ castList = <<>>
    /\ shapeVals = ShapeValues(labels)
    /\ poly = <<>>
    /\ lx = 0
    /\ lipc = "shapes"
    /\ polyLog = {}
    /\ listLog = <<>>
    /\ func = "none" /\ M = <<>> /\ sizPix = 0 /\ lpc = "idle" /\ lerr = ""
    /\ labeling = <<>> /\ shadowIdx = <<>> /\ bndOrient = <<>>
    /\ labList = <<>> /\ region = <<>> /\ x = 0 /\ rpc = "idle"
    /\ castLog = <<>>
    /\ ValleyIdle
    /\ IdsIdle
    /\ AffineIdle
    /\ SimpleIdle
    /\ EnhanceIdle
    /\ HoughIdle
    /\ SamplesIdle
    /\ MedianIdle
    /\ L0Idle

\* Lines 279-295: the loop takes the next polygon
NextShape ==
    /\ lipc = "shapes"
    /\ shapeVals # <<>>
    /\ poly' = PolygonOf(Head(shapeVals))
    /\ shapeVals' = Tail(shapeVals)
    /\ polyLog' = polyLog \cup {Head(shapeVals)}
    /\ lx' = 0
    /\ lipc' = "ridge"
    /\ UNCHANGED <<sunZn, geoTransform, castList, listLog>>
    /\ UNCHANGED exceptList

InListLoop == lipc = "ridge" /\ lx < Len(poly.ridge)

\* The ring of the polygon touches itself where two of its pixels meet in
\* a corner only (connectivity 8 joins them into one polygon).
SelfTouching(P) ==
    \E p \in P : \E dc \in {-1, 1} :
        /\ <<p[1] + 1, p[2] + dc>> \in P
        /\ <<p[1] + 1, p[2]>> \notin P
        /\ <<p[1], p[2] + dc>> \notin P

\* The variant that retries without repairing the polygon
IntersectRaises_NoBuffer ==
    /\ InListLoop
    /\ SelfTouching(poly.polygoon)
    /\ lipc' = "retry"
    /\ UNCHANGED <<sunZn, geoTransform, castList, shapeVals, poly, lx,
                   polyLog, listLog>>
    /\ UNCHANGED exceptList

\* Lines 310-314: polygoon.intersection(castLine) raises TopologicalError,
\* which the library can do for a ring that touches itself; the polygon
\* is replaced by polygoon.buffer(0) and line 315 is next.
IntersectRaises ==
    /\ InListLoop
    /\ SelfTouching(poly.polygoon)
    /\ poly' = [poly EXCEPT !.repaired = TRUE]
    /\ lipc' = "retry"
    /\ UNCHANGED <<sunZn, geoTransform, castList, shapeVals, lx, polyLog,
                   listLog>>
    /\ UNCHANGED exceptList

\* Line 315: the intersection with the repaired polygon raises as well;
\* it stands outside every try and the error leaves the function.
RetryRaises ==
    /\ lipc = "retry"
    /\ lipc' = "raised"
    /\ UNCHANGED <<sunZn, geoTransform, castList, shapeVals, poly, lx,
                   polyLog, listLog>>
    /\ UNCHANGED exceptList

\* Line 311 or line 315 has returned castEnd
Intersected == InListLoop \/ lipc = "retry"

\* The ridge pixel <<ridgeI[x], ridgeJ[x]>>
ListRidge == poly.ridge[lx + 1]

ListCastEnd ==
    CastEnd(Intersection(poly.polygoon, ListRidge[1], ListRidge[2], sunAz))

\* Line 338 is false: nothing is appended for this ridge pixel
CastNothing ==
    /\ Intersected
    /\ ~(Len(ListCastEnd) > 1)
    /\ lx' = lx + 1
    /\ lipc' = "ridge"
    /\ UNCHANGED <<sunZn, geoTransform, castList, shapeVals, poly,
                   polyLog, listLog>>
    /\ UNCHANGED exceptList

\* Lines 338-369: the closest intersection is found and the record of
\* the pair is appended
CastAppend ==
    /\ Intersected
    /\ Len(ListCastEnd) > 1
    /\ LET ridgeI == ListRidge[1]
           ridgeJ == ListRidge[2]
           casted == ListCastEnd[CastIdx(Dists(ListCastEnd, ridgeI, ridgeJ))]
           ridgeXY == RidgeXY(ridgeI, ridgeJ)
           castXY == CastXY(casted)
       IN /\ castList' = Append(castList,
                 <<ridgeXY[1], ridgeXY[2], castXY[1], castXY[2],
                   sunAz, sunZn[<<ridgeI, ridgeJ>>]>>)
          /\ listLog' = Append(listLog,
                 [val |-> poly.val, ridge |-> <<ridgeI, ridgeJ>>,
                  castEnd |-> ListCastEnd, casted |-> casted,
                  retried |-> (lipc = "retry")])
    /\ lx' = lx + 1
    /\ lipc' = "ridge"
    /\ UNCHANGED <<sunZn, geoTransform, shapeVals, poly, polyLog>>
    /\ UNCHANGED exceptList

\* Line 297: the ridge pixels of the polygon are exhausted
EndShape ==
    /\ lipc = "ridge"
    /\ lx = Len(poly.ridge)
    /\ lipc' = "shapes"
    /\ UNCHANGED <<sunZn, geoTransform, castList, shapeVals, poly, lx,
                   polyLog, listLog>>
    /\ UNCHANGED exceptList

\* Line 372: return castList
ReturnCastList ==
    /\ lipc = "shapes"
    /\ shapeVals = <<>>
    /\ lipc' = "done"
    /\ UNCHANGED <<sunZn, geoTransform, castList, shapeVals, poly, lx,
                   polyLog, listLog>>
    /\ UNCHANGED exceptList

ListNext ==
    \/ NextShape
    \/ IntersectRaises
    \/ RetryRaises
    \/ CastNothing
    \/ CastAppend
    \/ EndShape
    \/ ReturnCastList

SpecList == ListInit /\ [][ListNext]_vars

\* ------------------------------------------------------------------
\* Properties of listOccluderAndCasted
\* ------------------------------------------------------------------

PositiveLabels == {labels[p] : p \in Grid} \ {0}

\* C9: listOccluderAndCasted processes every positive label of the
\* labelled mask: when it returns, the polygon of each label >= 1, label 1
\* included, has been taken and its ridge pixels have been ray-cast.
C9_EveryPositiveLabelProcessed ==
    lipc = "done" => polyLog = PositiveLabels

\* The map coordinates of the pixel corner at row r, column c under the
\* geotransform gt = (gt[0], ..., gt[5])
GeoX(r, c) == geoTransform[1] + c * geoTransform[2] + r * geoTransform[3]
GeoY(r, c) == geoTransform[4] + c * geoTransform[5] + r * geoTransform[6]

NorthUp ==
    /\ geoTransform[3] = 0
    /\ geoTransform[5] = 0
    /\ geoTransform[6] = -geoTransform[2]

Remaining(n) ==
    SelectSeq(listLog[n].castEnd,
              LAMBDA c : c # <<listLog[n].ridge[2], listLog[n].ridge[1]>>)

PointSqDist(c, n) ==
    (c[1] - listLog[n].ridge[2]) * (c[1] - listLog[n].ridge[2])
      + (c[2] - listLog[n].ridge[1]) * (c[2] - listLog[n].ridge[1])

\* C11: a record is appended for a ridge pixel only if at least two
\* intersection points remain once the zero-distance candidates are
\* removed; its casted point is the nearest remaining candidate and is
\* not at zero distance from the ridge point.
C11_TwoCandidatesRemain ==
    \A n \in 1..Len(listLog) :
       /\ Len(Remaining(n)) >= 2
       /\ PointSqDist(listLog[n].casted, n) > 0
       /\ \E k \in 1..Len(Remaining(n)) : Remaining(n)[k] = listLog[n].casted
       /\ \A k \in 1..Len(Remaining(n)) :
             PointSqDist(listLog[n].casted, n) <= PointSqDist(Remaining(n)[k], n)

\* C12: when the intersection raises a topology error the polygon is
\* repaired with buffer(0) and the intersection is retried once: the
\* retry either succeeds, and the loop goes on to the next ridge pixel of
\* the same polygon with at most the record of this pixel appended, or it
\* fails, and the error leaves the function; after that no record is
\* appended and nothing is returned.
C12_RepairRetryOncePropagate ==
    [][/\ (lipc = "ridge" /\ lipc' = "retry")
            => /\ poly'.repaired
               /\ poly'.polygoon = poly.polygoon
               /\ lx' = lx
               /\ castList' = castList
       /\ lipc = "retry"
            => \/ /\ lipc' = "ridge"
                  /\ lx' = lx + 1
                  /\ poly' = poly
                  /\ \/ castList' = castList
                     \/ /\ Len(castList') = Len(castList) + 1
                        /\ listLog'[Len(listLog')].ridge = poly.ridge[lx + 1]
               \/ /\ lipc' = "raised"
                  /\ castList' = castList
       /\ lipc = "raised" => (lipc' = "raised" /\ castList' = castList)]_vars

\* A retry has succeeded: the record of its ridge pixel is in the list and
\* the loop is at a further ridge pixel of the repaired polygon.
C12_Witness ==
    /\ lipc = "ridge"
    /\ poly.repaired
    /\ lx < Len(poly.ridge)
    /\ \E n \in 1..Len(listLog) : listLog[n].retried /\ listLog[n].val = poly.val

\* ------------------------------------------------------------------
\* affine_optical_flow(I1, I2, model, iteration)
\* ------------------------------------------------------------------
\* The numerical library calls (griddata, lstsq, inv) are taken by their
\* outcomes: the value they return, drawn from a small set, or the error
\* they raise.

\* Line 243: y.size >= 6
MinSamples == 6
\* Line 254: the first residual is compared against 1e3
StartRes == 1000

\* I1.size of a 2 x 2, a 2 x 3 and a 3 x 3 template
TemplateSizes == {4, 6, 9}

\* The residuals lstsq can return
Residuals == {0, 1, 2, 2000}

Zero6 == <<0, 0, 0, 0, 0, 0>>

\* The updates dp lstsq can return: none, a shift along i, a shift along
\* j, and one that makes the linear part of the transform singular
Updates == {Zero6, <<0, 0, 0, 0, 1, 0>>, <<0, 0, 0, 0, 0, -1>>,
            <<-1, 0, 0, 0, 0, 0>>}

VecAdd(a, b) == [k \in 1..6 |-> a[k] + b[k]]

\* Line 204 and 262: Aff = [[1, 0, 0], [0, 1, 0]] + p.reshape(3, 2).T
AffOf(q) == <<(<<1 + q[1], q[3], q[5]>>), (<<q[2], 1 + q[4], q[6]>>)>>

\* The determinant of Aff[:, 0:2]
Det2(aff) == aff[1][1] * aff[2][2] - aff[1][2] * aff[2][1]

AffineInit ==
    /\ identical \in BOOLEAN
    /\ mnI \in TemplateSizes
    /\ iteration \in 1..MaxIter
    /\ it = 0
    /\ pvec = Zero6
    /\ dp = "unbound"
    /\ p_stack = [k \in 1..iteration |-> Zero6]
    /\ res = [k \in 1..iteration |-> 0]
    /\ I2_new = "unbound"
    /\ apc = "loop"
    /\ aerr = ""
    /\ ret = <<>>
    /\ solved = {}
    /\ ValleyIdle
    /\ LabelerIdle
    /\ IdsIdle
    /\ RidgeIdle
    /\ ListIdle
    /\ SimpleIdle
    /\ EnhanceIdle
    /\ HoughIdle
    /\ SamplesIdle
    /\ MedianIdle
    /\ L0Idle

InAffineLoop == apc = "loop" /\ it < iteration

\* Line 224: I_dt_new = I2_new - I1 is zero everywhere when I2 is I1 and
\* the grid has not moved
IdtZero_Never == FALSE
IdtZero == identical /\ pvec = Zero6

\* Lines 212-224: griddata raises for I2; the bare except prints and goes
\* on, and in the first iteration I2_new is not bound at line 224.
ResampleRaisesUnbound ==
    /\ InAffineLoop
    /\ I2_new = "unbound"
    /\ apc' = "raised"
    /\ aerr' = "NameError"
    /\ UNCHANGED <<identical, mnI, iteration, it, pvec, dp, p_stack, res,
                   I2_new, ret>>
    /\ UNCHANGED solved
    /\ UNCHANGED exceptAffine

\* Lines 217-220: griddata raises for a gradient image, outside any try
GradientResampleRaises ==
    /\ InAffineLoop
    /\ apc' = "raised"
    /\ aerr' = "griddata"
    /\ UNCHANGED <<identical, mnI, iteration, it, pvec, dp, p_stack, res,
                   I2_new, ret>>
    /\ UNCHANGED solved
    /\ UNCHANGED exceptAffine

\* Lines 237-249: fewer than 6 samples are left (the template is smaller
\* than that, or the moved grid left the data): break
TooFewSamples ==
    /\ InAffineLoop
    /\ mnI < MinSamples \/ pvec # Zero6
    /\ apc' = "after"
    /\ I2_new' = "bound"
    /\ UNCHANGED <<identical, mnI, iteration, it, pvec, dp, p_stack, res,
                   aerr, ret>>
    /\ UNCHANGED solved
    /\ UNCHANGED exceptAffine

\* Lines 250-251: p += dp; p_stack[i,:] = p, and the loop goes on
Advance(d, r) ==
    /\ dp' = d
    /\ pvec' = VecAdd(pvec, d)
    /\ p_stack' = [p_stack EXCEPT ![it + 1] = VecAdd(pvec, d)]
    /\ res' = [res EXCEPT ![it + 1] = r]
    /\ it' = it + 1
    /\ I2_new' = "bound"
    /\ UNCHANGED <<identical, mnI, iteration, apc, aerr, ret>>

\* Line 245: lstsq returns the update and one residual
SolveOk ==
    /\ InAffineLoop
    /\ mnI >= MinSamples
    /\ \E d \in Updates, r \in Residuals :
          /\ IdtZero => (d = Zero6 /\ r = 0)
          /\ Advance(d, r)
    /\ solved' = solved \cup {it + 1}
    /\ UNCHANGED exceptAffine

\* Line 245: lstsq returns the update and an empty residual array (A is
\* rank deficient): dp is bound, the assignment to res[i] raises
\* ValueError and line 247 passes; res[i] keeps its 0.
SolveNoResidual ==
    /\ InAffineLoop
    /\ mnI >= MinSamples
    /\ \E d \in Updates :
          /\ IdtZero => d = Zero6
          /\ Advance(d, res[it + 1])
    /\ UNCHANGED solved
    /\ UNCHANGED exceptAffine

\* Lines 245-250: lstsq raises ValueError, line 247 passes, and the dp of
\* the iteration before is added once more
SolveRaisesStale ==
    /\ InAffineLoop
    /\ mnI >= MinSamples
    /\ dp # "unbound"
    /\ Advance(dp, res[it + 1])
    /\ UNCHANGED solved
    /\ UNCHANGED exceptAffine

\* Lines 245-250: the same in the first iteration: dp is not bound at
\* line 250
SolveRaisesUnbound ==
    /\ InAffineLoop
    /\ mnI >= MinSamples
    /\ dp = "unbound"
    /\ apc' = "raised"
    /\ aerr' = "NameError"
    /\ UNCHANGED <<identical, mnI, iteration, it, pvec, dp, p_stack, res,
                   I2_new, ret>>
    /\ UNCHANGED solved
    /\ UNCHANGED exceptAffine

\* Line 202: the iterations are used up
LoopEnds ==
    /\ apc = "loop"
    /\ it = iteration
    /\ apc' = "after"
    /\ UNCHANGED <<identical, mnI, iteration, it, pvec, dp, p_stack, res,
                   I2_new, aerr, ret>>
    /\ UNCHANGED solved
    /\ UNCHANGED exceptAffine

\* Line 254: the indices (from 1) at which the residual went up;
\* np.vstack(([1e3], res[:-1])) puts 1e3 in front of the first
UpIdx(r) ==
    {k \in 1..Len(r) : r[k] > (IF k = 1 THEN StartRes ELSE r[k - 1])}

\* The variant without lines 255-256
Accepted_NoCut(r) == r

\* Lines 255-256: res = res[:up_idx[0]]
Accepted(r) ==
    IF UpIdx(r) # {} THEN SubSeq(r, 1, SetMin(UpIdx(r)) - 1) ELSE r

\* np.argmin(res), counted from 1: the first index of the minimum
ArgMin(r) ==
    SetMin({k \in 1..Len(r) : \A j \in 1..Len(r) : r[k] <= r[j]})

\* Lines 258-260 and 267: no residual is accepted
ReturnIdentity ==
    /\ apc = "after"
    /\ Accepted(res) = <<>>
    /\ res' = Accepted(res)
    /\ ret' = [u |-> 0, v |-> 0, snr |-> 0,
               A |-> [inverseT |-> FALSE, of |-> <<(<<1, 0>>), (<<0, 1>>)>>]]
    /\ apc' = "done"
    /\ UNCHANGED <<identical, mnI, iteration, it, pvec, dp, p_stack, I2_new,
                   aerr>>
    /\ UNCHANGED solved
    /\ UNCHANGED exceptAffine

\* The transform of the iteration with the least accepted residual
BestAff == AffOf(p_stack[ArgMin(Accepted(res))])

\* Lines 261-267: A = np.linalg.inv(Aff[:,0:2]).T is kept as the matrix
\* it is the inverse transpose of
ReturnBest ==
    /\ apc = "after"
    /\ Accepted(res) # <<>>
    /\ Det2(BestAff) # 0
    /\ res' = Accepted(res)
    /\ ret' = [u |-> BestAff[1][3], v |-> BestAff[2][3],
               snr |-> Accepted(res)[ArgMin(Accepted(res))],
               A |-> [inverseT |-> TRUE,
                      of |-> <<(<<BestAff[1][1], BestAff[1][2]>>),
                               (<<BestAff[2][1], BestAff[2][2]>>)>>]]
    /\ apc' = "done"
    /\ UNCHANGED <<identical, mnI, iteration, it, pvec, dp, p_stack, I2_new,
                   aerr>>
    /\ UNCHANGED solved
    /\ UNCHANGED exceptAffine

\* Line 265: np.linalg.inv raises for a singular matrix
InverseRaises ==
    /\ apc = "after"
    /\ Accepted(res) # <<>>
    /\ Det2(BestAff) = 0
    /\ res' = Accepted(res)
    /\ apc' = "raised"
    /\ aerr' = "LinAlgError"
    /\ UNCHANGED <<identical, mnI, iteration, it, pvec, dp, p_stack, I2_new,
                   ret>>
    /\ UNCHANGED solved
    /\ UNCHANGED exceptAffine

AffineNext ==
    \/ ResampleRaisesUnbound
    \/ GradientResampleRaises
    \/ TooFewSamples
    \/ SolveOk
    \/ SolveNoResidual
    \/ SolveRaisesStale
    \/ SolveRaisesUnbound
    \/ LoopEnds
    \/ ReturnIdentity
    \/ ReturnBest
    \/ InverseRaises

SpecAffine == AffineInit /\ [][AffineNext]_vars

\* ------------------------------------------------------------------
\* Properties of affine_optical_flow
\* ------------------------------------------------------------------

IdentityResult ==
    /\ ret.u = 0
    /\ ret.v = 0
    /\ ret.snr = 0
    /\ ret.A.of = <<(<<1, 0>>), (<<0, 1>>)>>

\* C13: affine_optical_flow never raises, whatever the images and the
\* iteration count >= 1 (a failing resampling or solve in the first
\* iteration and fewer than 6 samples included): it returns, and with an
\* empty accepted residual sequence it returns the identity transform,
\* u = 0, v = 0 and confidence 0.
C13_AffineNeverRaises ==
    /\ apc # "raised"
    /\ (apc = "done" /\ res = <<>>) => IdentityResult

\* The length of the longest initial part of r in which no residual is
\* larger than the one before it (the first: than the start threshold)
PrefixLen(r) ==
    SetMax({n \in 0..Len(r) :
              \A k \in 1..n : r[k] <= (IF k = 1 THEN StartRes ELSE r[k - 1])})

\* C14: after the loop only the longest initial prefix of the residuals
\* in which none is larger than its predecessor (the first compared with
\* 1e3) is accepted, and the returned displacement and transform are the
\* parameters of an iteration inside that prefix whose residual is its
\* minimum: no iteration after the first increase is returned.
C14_BestOfAcceptedPrefix ==
    [][(apc = "after" /\ apc' # "after")
          => /\ res' = SubSeq(res, 1, PrefixLen(res))
             /\ (apc' = "done" /\ PrefixLen(res) > 0)
                   => \E k \in 1..PrefixLen(res) :
                         /\ \A j \in 1..PrefixLen(res) : res[k] <= res[j]
                         /\ ret'.snr = res[k]
                         /\ ret'.u = p_stack[k][5]
                         /\ ret'.v = p_stack[k][6]
                         /\ ret'.A.of = <<(<<1 + p_stack[k][1], p_stack[k][3]>>),
                                          (<<p_stack[k][2], 1 + p_stack[k][4]>>)>>]_vars

\* Three iterations ran with different parameters, the third residual
\* went up, and the second, the least of the two accepted, was returned.
C14_Witness ==
    /\ apc = "done"
    /\ iteration = 3
    /\ it = 3
    /\ Len(res) = 2
    /\ res[2] < res[1]
    /\ p_stack[1] # p_stack[2]
    /\ p_stack[2] # p_stack[3]
    /\ p_stack[2][5] # 0
    /\ ret.u = p_stack[2][5]

Velocities == {<<1, 2>>, <<-1, 3>>}
Eigenvalues == {<<5, 7>>}

SampleSets ==
    UNION {[1..n -> BOOLEAN] : n \in 1..MaxSamples}

\* Lines 110-115: the results before the loop.  Line 112 ends in a
\* comma: Vgrd is a tuple that holds the array.
SimpleInit ==
    /\ sampleNdim \in {1, 2}
    /\ flatIt \in SampleSets
    /\ iIdx = 0
    /\ Ugrd = IF sampleNdim > 1 THEN [k \in 1..Len(flatIt) |-> 0] ELSE 0
    /\ Vgrd = IF sampleNdim > 1 THEN <<[k \in 1..Len(flatIt) |-> 0]>> ELSE 0
    /\ Ueig = IF sampleNdim > 1 THEN [k \in 1..Len(flatIt) |-> 0] ELSE 0
    /\ Veig = IF sampleNdim > 1 THEN [k \in 1..Len(flatIt) |-> 0] ELSE 0
    /\ spc = "loop"
    /\ serr = ""
    /\ ValleyIdle
    /\ LabelerIdle
    /\ IdsIdle
    /\ RidgeIdle
    /\ ListIdle
    /\ AffineIdle
    /\ EnhanceIdle
    /\ HoughIdle
    /\ SamplesIdle
    /\ MedianIdle
    /\ L0Idle

InSampleLoop == spc = "loop" /\ iIdx < Len(flatIt)

\* Line 135 is false: the sample is passed over
SkipFlat ==
    /\ InSampleLoop
    /\ flatIt[iIdx + 1]
    /\ iIdx' = iIdx + 1
    /\ UNCHANGED <<sampleNdim, flatIt, Ugrd, Vgrd, Ueig, Veig, spc, serr>>
    /\ UNCHANGED exceptSimple

\* Lines 135-148 with sampleI.ndim <= 1: the four scalars are overwritten
EstimateSingle ==
    /\ InSampleLoop
    /\ ~flatIt[iIdx + 1]
    /\ ~(sampleNdim > 1)
    /\ \E nu \in Velocities, epsilon \in Eigenvalues :
          /\ Ugrd' = nu[2]
          /\ Vgrd' = nu[1]
          /\ Ueig' = epsilon[2]
          /\ Veig' = epsilon[1]
    /\ iIdx' = iIdx + 1
    /\ UNCHANGED <<sampleNdim, flatIt, spc, serr>>
    /\ UNCHANGED exceptSimple

\* Lines 135-144 with sampleI.ndim > 1: Ugrd[iGrd,jGrd] is assigned, then
\* the item assignment to the tuple Vgrd raises TypeError
EstimateGridRaises ==
    /\ InSampleLoop
    /\ ~flatIt[iIdx + 1]
    /\ sampleNdim > 1
    /\ \E nu \in Velocities : Ugrd' = [Ugrd EXCEPT ![iIdx + 1] = nu[1]]
    /\ spc' = "raised"
    /\ serr' = "TypeError"
    /\ UNCHANGED <<sampleNdim, flatIt, iIdx, Vgrd, Ueig, Veig>>
    /\ UNCHANGED exceptSimple

\* Line 150: return Ugrd, Vgrd, Ueig, Veig
SimpleReturn ==
    /\ spc = "loop"
    /\ iIdx = Len(flatIt)
    /\ spc' = "done"
    /\ UNCHANGED <<sampleNdim, flatIt, iIdx, Ugrd, Vgrd, Ueig, Veig, serr>>
    /\ UNCHANGED exceptSimple

SimpleNext ==
    \/ SkipFlat
    \/ EstimateSingle
    \/ EstimateGridRaises
    \/ SimpleReturn

SpecSimple == SimpleInit /\ [][SimpleNext]_vars

\* The four values the call returns for sample point k
ReturnedAt(k) ==
    IF sampleNdim > 1
      THEN <<Ugrd[k], Vgrd[1][k], Ueig[k], Veig[k]>>
      ELSE <<Ugrd, Vgrd, Ueig, Veig>>

FlatSamples == {k \in 1..Len(flatIt) : flatIt[k]}

\* C16: every sample point whose window has a zero-variance It is skipped
\* and the call returns the default zero displacement and eigenvalues for
\* it, also when other sample points of the call have windows with
\* variation.
C16_FlatSampleReturnsZero ==
    /\ spc = "done" => \A k \in FlatSamples : ReturnedAt(k) = <<0, 0, 0, 0>>
    /\ spc = "raised" => FlatSamples = {}

\* ------------------------------------------------------------------
\* enhance_shadows(Shw, method, **kwargs)
\* ------------------------------------------------------------------
\* A string is the sequence of its characters, so that the two meanings
\* of Python's "in" can be told apart.

StrMean == <<"m", "e", "a", "n">>
StrMeanShift == <<"m", "e", "a", "n", "-", "s", "h", "i", "f", "t">>
StrKuwahara == <<"k", "u", "w", "a", "h", "a", "r", "a">>
StrMedian == <<"m", "e", "d", "i", "a", "n">>
StrAnistropic == <<"a", "n", "i", "s", "t", "r", "o", "p", "i", "c">>
StrAnistropicDiffusion == <<"a", "n", "i", "s", "t", "r", "o", "p", "i", "c", "-", "d", "i", "f", "f", "u", "s", "i", "o", "n">>
StrL0 == <<"L", "0">>
StrL0smoothing == <<"L", "0", "s", "m", "o", "o", "t", "h", "i", "n", "g">>
StrAnisotropic == <<"a", "n", "i", "s", "o", "t", "r", "o", "p", "i", "c">>

\* Other method names given by callers: the empty string, parts of a
\* name, a name of the docstring without a branch, and an unknown name
OtherMethods ==
    {<<>>, <<"k", "u", "w", "a">>, <<"a">>, <<"m", "e", "d">>, <<"m", "e", "a">>, <<"L">>, <<"o", "t", "s", "u">>, <<"s", "o", "b", "e", "l">>}

Methods ==
    {StrMean, StrMeanShift, StrKuwahara, StrMedian, StrAnistropic,
     StrAnistropicDiffusion, StrL0, StrL0smoothing, StrAnisotropic}
      \cup OtherMethods

\* method in ('a', 'b'): membership in a tuple of strings
InTuple(m, names) == m \in names

\* method in ('a'): the parentheses make no tuple, this is the substring
\* test of str.__contains__
InString(m, name) ==
    /\ Len(m) <= Len(name)
    /\ \E k \in 0..(Len(name) - Len(m)) : SubSeq(name, k + 1, k + Len(m)) = m

\* kwargs.get(key), None when the key is not given
None == -1
KwGet(key) == IF key \in DOMAIN kwargs THEN kwargs[key] ELSE None

\* value if kwargs.get(key) == None else kwargs.get(key)
OrDefault(key, default) == IF KwGet(key) = None THEN default ELSE KwGet(key)

\* The keyword arguments of the model: some of tsize, loop and quantile;
\* fractional values are kept in hundredths
KwargSets ==
    {[k \in ks |-> CASE k = "tsize" -> 3 [] k = "loop" -> 10 [] OTHER -> 20] :
        ks \in SUBSET {"tsize", "loop", "quantile"}}

EnhanceInit ==
    /\ method \in Methods
    /\ kwargs \in KwargSets
    /\ optimize \in BOOLEAN
    /\ called = <<>>
    /\ epc = "start"
    /\ eerr = ""
    /\ ValleyIdle
    /\ LabelerIdle
    /\ IdsIdle
    /\ RidgeIdle
    /\ ListIdle
    /\ AffineIdle
    /\ SimpleIdle
    /\ HoughIdle
    /\ SamplesIdle
    /\ MedianIdle
    /\ L0Idle

IsMean == InTuple(method, {StrMean, StrMeanShift})
IsKuwahara == InString(method, StrKuwahara)
IsMedian == InString(method, StrMedian)
IsAnistropic == InTuple(method, {StrAnistropic, StrAnistropicDiffusion})
IsL0 == InTuple(method, {StrL0, StrL0smoothing})

\* The filter is called and its image returned (line 62)
Dispatch(filter, args) ==
    /\ epc = "start"
    /\ called' = [filter |-> filter, args |-> args]
    /\ epc' = "done"
    /\ UNCHANGED <<method, kwargs, optimize, eerr>>
    /\ UNCHANGED exceptEnhance

\* Lines 40-42
CallMeanShift ==
    /\ IsMean
    /\ Dispatch("mean_shift_filter", [quantile |-> OrDefault("quantile", 10)])

\* Lines 43-45
CallKuwahara ==
    /\ ~IsMean
    /\ IsKuwahara
    /\ Dispatch("kuwahara_filter", [tsize |-> OrDefault("tsize", 5)])

\* Lines 46-49
CallMedian ==
    /\ ~IsMean /\ ~IsKuwahara
    /\ IsMedian
    /\ Dispatch("iterative_median_filter",
                [tsize |-> OrDefault("tsize", 5), loop |-> OrDefault("loop", 50)])

\* Lines 50-55
CallAnistropic ==
    /\ ~IsMean /\ ~IsKuwahara /\ ~IsMedian
    /\ IsAnistropic
    /\ Dispatch("anistropic_diffusion_scalar",
                [iter |-> OrDefault("iter", 10), K |-> OrDefault("K", 15),
                 s |-> OrDefault("s", 25), n |-> OrDefault("n", 4)])

\* Lines 56-59
CallL0 ==
    /\ ~IsMean /\ ~IsKuwahara /\ ~IsMedian /\ ~IsAnistropic
    /\ IsL0
    /\ Dispatch("L0_smoothing",
                [lamb |-> OrDefault("lamb", 2), kappa |-> OrDefault("kappa", 200)])

NoBranch == ~IsMean /\ ~IsKuwahara /\ ~IsMedian /\ ~IsAnistropic /\ ~IsL0

\* Lines 60-61: assert 1==2, 'please provide a correct method'
AssertFails ==
    /\ epc = "start"
    /\ NoBranch
    /\ ~optimize
    /\ epc' = "raised"
    /\ eerr' = "AssertionError"
    /\ UNCHANGED <<method, kwargs, optimize, called>>
    /\ UNCHANGED exceptEnhance

\* Lines 60-62 under python -O: the assert is removed and return M finds
\* M unbound
AssertRemoved ==
    /\ epc = "start"
    /\ NoBranch
    /\ optimize
    /\ epc' = "raised"
    /\ eerr' = "UnboundLocalError"
    /\ UNCHANGED <<method, kwargs, optimize, called>>
    /\ UNCHANGED exceptEnhance

EnhanceNext ==
    \/ CallMeanShift
    \/ CallKuwahara
    \/ CallMedian
    \/ CallAnistropic
    \/ CallL0
    \/ AssertFails
    \/ AssertRemoved

SpecEnhance == EnhanceInit /\ [][EnhanceNext]_vars

\* The recognized method names and the filter of each
FilterOf ==
    [m \in {StrMean, StrKuwahara, StrMedian, StrAnisotropic, StrL0} |->
        CASE m = StrMean -> "mean_shift_filter"
          [] m = StrKuwahara -> "kuwahara_filter"
          [] m = StrMedian -> "iterative_median_filter"
          [] m = StrAnisotropic -> "anistropic_diffusion_scalar"
          [] OTHER -> "L0_smoothing"]

\* C17: enhance_shadows calls a filter if and only if method is one of
\* mean, kuwahara, median, anisotropic, L0, each its own filter; every
\* other method string, the empty string and proper parts of a name
\* included, fails with the invalid-method error and returns no image.
C17_DispatchIffRecognized ==
    epc # "start"
      => /\ method \in DOMAIN FilterOf
            => (epc = "done" /\ called.filter = FilterOf[method])
         /\ method \notin DOMAIN FilterOf
            => (epc = "raised" /\ eerr = "AssertionError" /\ called = <<>>)

\* ------------------------------------------------------------------
\* hough_optical_flow(I1, I2, param_resol, sample_fraction)
\* ------------------------------------------------------------------
\* Displacements are kept in units of 1 / (param_resol - 1), in which the
\* grid values of np.linspace(-1, +1, param_resol) are integers.

Shifts == (-MaxShift..MaxShift) \X (-MaxShift..MaxShift)
Resolutions == 3..MaxResol

Cells(R) == (0..(R - 1)) \X (0..(R - 1))

\* np.linspace(-1, +1, R)[k], times R - 1
Linspace(R, k) == 2 * k - (R - 1)

\* Lines 325-326: (u, v) = np.meshgrid(lin, lin): u varies along the
\* columns and v along the rows
GridU(R, cell) == Linspace(R, cell[2])
GridV(R, cell) == Linspace(R, cell[1])

\* pol2cart(rho, theta) = (rho cos(theta), rho sin(theta)) applied to
\* lines 337-338, rho_H = 2 sqrt(u^2 + v^2) and theta_H = arctan2(v, u):
\* the displacement of a cell is twice its grid value
CellDisp(R, cell) == <<2 * GridU(R, cell), 2 * GridV(R, cell)>>

\* The distance of a cell's displacement from the shift (sum of squares)
Miss(R, cell, sh) ==
    (CellDisp(R, cell)[1] - sh[1] * (R - 1)) * (CellDisp(R, cell)[1] - sh[1] * (R - 1))
      + (CellDisp(R, cell)[2] - sh[2] * (R - 1)) * (CellDisp(R, cell)[2] - sh[2] * (R - 1))

\* The cells whose displacement is nearest to the shift
Nearest(R, sh) ==
    {c \in Cells(R) : \A d \in Cells(R) : Miss(R, c, sh) <= Miss(R, d, sh)}

HoughInit ==
    /\ param_resol \in Resolutions
    /\ shift \in Shifts
    /\ vote = [c \in Cells(param_resol) |-> 0]
    /\ ind = <<>>
    /\ disp = <<>>
    /\ hpc = "vote"
    /\ ValleyIdle
    /\ LabelerIdle
    /\ IdsIdle
    /\ RidgeIdle
    /\ ListIdle
    /\ AffineIdle
    /\ SimpleIdle
    /\ EnhanceIdle
    /\ SamplesIdle
    /\ MedianIdle
    /\ L0Idle

\* Lines 329-334: the samples vote.  The votes depend on the intensities,
\* which are not kept; they are taken at their best: the highest vote
\* falls on cells whose displacement is nearest to the shift.
Accumulate ==
    /\ hpc = "vote"
    /\ \E peaks \in SUBSET Nearest(param_resol, shift) :
          /\ peaks # {}
          /\ vote' = [c \in Cells(param_resol) |-> IF c \in peaks THEN 2 ELSE 1]
    /\ hpc' = "peak"
    /\ UNCHANGED <<param_resol, shift, ind, disp>>
    /\ UNCHANGED exceptHough

\* np.unravel_index(np.argmax(vote, axis=None), vote.shape): the first
\* cell, in row-major order, with the highest vote
ArgMaxCell(vt, R) ==
    LET best == {c \in Cells(R) : \A d \in Cells(R) : vt[c] >= vt[d]}
        first == SetMin({c[1] * R + c[2] : c \in best})
    IN <<first \div R, first % R>>

\* Lines 336-342
HoughReturn ==
    /\ hpc = "peak"
    /\ ind' = ArgMaxCell(vote, param_resol)
    /\ disp' = CellDisp(param_resol, ArgMaxCell(vote, param_resol))
    /\ hpc' = "done"
    /\ UNCHANGED <<param_resol, shift, vote>>
    /\ UNCHANGED exceptHough

HoughNext == Accumulate \/ HoughReturn

SpecHough == HoughInit /\ [][HoughNext]_vars

\* C18: for a pair of images that differ by the integer shift (du, dv),
\* hough_optical_flow returns the displacement of the grid cell with the
\* highest vote, and that (di, dj) lies within one cell of the grid of
\* displacements, 4 / (param_resol - 1), of (du, dv).
C18_ShiftRecoveredWithinOneCell ==
    hpc = "done"
      => /\ \A c \in Cells(param_resol) : vote[ind] >= vote[c]
         /\ Abs(disp[1] - shift[1] * (param_resol - 1)) <= 4
         /\ Abs(disp[2] - shift[2] * (param_resol - 1)) <= 4

\* ------------------------------------------------------------------
\* Properties of the cast line of labelOccluderAndCasted
\* ------------------------------------------------------------------

\* The cast line of the ridge pixel at hand, before clipping
CurrentRay ==
    RayPixels(region.ridge[x + 1][1], region.ridge[x + 1][2], sunAz,
              region.m, region.n)

\* (dRow, dCol) = (-cos az, -sin az) rounded to the grid, for the
\* azimuths of the model (multiples of 45 degrees): one step of the ray
SunStep(az) == <<Sign(-Cos10k(az)), Sign(-Sin10k(az))>>

\* C19: every pixel of the rasterized ray of a ridge pixel (r0, c0) is
\* (r0, c0) plus a non-negative multiple of (dRow, dCol) = (-cos az,
\* -sin az), rounded to the grid, and the ray starts at the ridge pixel
\* itself, in each of the four branches.
C19_RayRunsFromRidgeAgainstSun ==
    InRidgeLoop
      => /\ region.ridge[x + 1] \in CurrentRay
         /\ \A q \in CurrentRay :
               \E k \in 0..(GridRows + GridCols) :
                  q = <<region.ridge[x + 1][1] + k * SunStep(sunAz)[1],
                        region.ridge[x + 1][2] + k * SunStep(sunAz)[2]>>

\* The receiver pixels on the part of the ray inside the sub-image
InBoundsHits ==
    {q \in CurrentRay :
        /\ q[1] \in 0..(region.m - 1)
        /\ q[2] \in 0..(region.n - 1)
        /\ q \in region.cast}

\* C20: the ray is clipped to 0 <= row < m and 0 <= col < n, so marking
\* it never indexes outside the sub-image, and a ridge pixel whose ray
\* holds a receiver pixel inside the sub-image gets its pair: a ray
\* pixel with row = m or col = n does not make the ridge pixel be skipped.
C20_RayClippedInsideSubImage ==
    [][InRidgeLoop
         => /\ \A q \in MarkedRay :
                  q[1] \in 0..(region.m - 1) /\ q[2] \in 0..(region.n - 1)
            /\ InBoundsHits # {}
                  => /\ Len(castLog') = Len(castLog) + 1
                     /\ castLog'[Len(castLog')].hits # <<>>]_vars

\* ------------------------------------------------------------------
\* Properties of the sub-image and of the output of labelOccluderAndCasted
\* ------------------------------------------------------------------

\* The pixels of the region at hand, in image coordinates
RegionPixels == {p \in Grid : labeling[p] = region.i}

\* The pixels of the sub-mask of the region at hand, in image coordinates
SubMskPixels == {ToImage(region.subWhe[k]) : k \in DOMAIN region.subWhe}

\* C21: the sub-image extracted for a labelled region is its full
\* bounding box: every pixel of the region, those of its last row and
\* last column included, lies in the sub-mask used for the boundary, the
\* ridge and the receiver detection.
C21_SubImageIsFullBoundingBox ==
    rpc = "ridge" => RegionPixels \subseteq SubMskPixels

\* The pairs that were written out, in the order of writing
WrittenPairs == SelectSeq(castLog, LAMBDA e : e.casted # <<>>)

\* C22: at return every recorded ridge entry is positive and still holds
\* its number, its casted partner still holds the negated number, and no
\* two pairs of the image share a number.
C22_WrittenPairsKeptAndDistinct ==
    rpc = "done"
      => /\ \A k \in DOMAIN WrittenPairs :
               /\ shadowIdx[WrittenPairs[k].ridge] > 0
               /\ shadowIdx[WrittenPairs[k].ridge] = WrittenPairs[k].x
               /\ shadowIdx[WrittenPairs[k].casted] = -WrittenPairs[k].x
         /\ \A k, l \in DOMAIN WrittenPairs :
               k # l => WrittenPairs[k].x # WrittenPairs[l].x

\* ------------------------------------------------------------------
\* The iteration that affine_optical_flow returns
\* ------------------------------------------------------------------

\* C24: the iteration whose parameters are returned is one whose
\* least-squares solve was performed and succeeded, and the confidence
\* returned is the residual of that solve; an iteration that never ran or
\* whose solve failed, whose residual slot still holds its initial 0, is
\* never the one selected.
C24_ResultFromSolvedIteration ==
    (apc = "done" /\ ret.A.inverseT)
      => /\ ArgMin(res) \in solved
         /\ ret.snr = res[ArgMin(res)]

\* ------------------------------------------------------------------
\* affine_optical_flow, lines 236-249: the samples of one iteration
\* ------------------------------------------------------------------
\* Of every pixel of the template only what lines 237-240 ask is kept:
\* whether its row of A holds a NaN and whether its entry of y is NaN.

PixelFlags == UNION {[1..n -> BOOLEAN] : n \in 1..MaxPixels}

SamplesInit ==
    /\ nanA \in PixelFlags
    /\ nanY \in [1..Len(nanA) -> BOOLEAN]
    /\ keptA = <<>>
    /\ keptY = <<>>
    /\ fpc = "start"
    /\ ValleyIdle
    /\ LabelerIdle
    /\ IdsIdle
    /\ RidgeIdle
    /\ ListIdle
    /\ AffineIdle
    /\ SimpleIdle
    /\ EnhanceIdle
    /\ HoughIdle
    /\ MedianIdle
    /\ L0Idle

\* The indices of a sequence of flags at which test holds, ascending
Where(flags, test(_)) ==
    SelectSeq([k \in 1..Len(flags) |-> k], test)

\* Line 237: IN = ~(np.any(np.isnan(A), axis=1) | np.isnan(y))
InMask(k) == ~(nanA[k] \/ nanY[k])

\* Line 240: ~np.isnan(y)
NotNanY(k) == ~nanY[k]

\* Lines 239-240: A = A[IN,:]; y = y[~np.isnan(y)]
FilterSamples ==
    /\ fpc = "start"
    /\ keptA' = Where(nanA, InMask)
    /\ keptY' = Where(nanY, NotNanY)
    /\ fpc' = "filtered"
    /\ UNCHANGED <<nanA, nanY>>
    /\ UNCHANGED exceptSamples

\* Lines 243-249: y.size < 6, break
SamplesBreak ==
    /\ fpc = "filtered"
    /\ Len(keptY) < MinSamples
    /\ fpc' = "break"
    /\ UNCHANGED <<nanA, nanY, keptA, keptY>>
    /\ UNCHANGED exceptSamples

\* Line 245: np.linalg.lstsq(A, y) with as many rows as entries
SamplesSolve ==
    /\ fpc = "filtered"
    /\ Len(keptY) >= MinSamples
    /\ Len(keptA) = Len(keptY)
    /\ fpc' = "solved"
    /\ UNCHANGED <<nanA, nanY, keptA, keptY>>
    /\ UNCHANGED exceptSamples

\* Line 245: lstsq raises LinAlgError ('Incompatible dimensions') when A
\* and y differ in length.  Whether line 246 catches it depends on the
\* numpy at hand (LinAlgError is a ValueError in some versions only).
SamplesMismatch ==
    /\ fpc = "filtered"
    /\ Len(keptY) >= MinSamples
    /\ Len(keptA) # Len(keptY)
    /\ fpc' \in {"passed", "raised"}
    /\ UNCHANGED <<nanA, nanY, keptA, keptY>>
    /\ UNCHANGED exceptSamples

SamplesNext ==
    \/ FilterSamples
    \/ SamplesBreak
    \/ SamplesSolve
    \/ SamplesMismatch

SpecSamples == SamplesInit /\ [][SamplesNext]_vars

\* C23: a pixel is dropped from the least-squares system if and only if
\* its residual or one of its Jacobian entries is undefined, and the rows
\* of A and the entries of y that remain are those of the same pixels in
\* the same order.
C23_SamplesDroppedTogether ==
    fpc # "start"
      => /\ keptA = Where(nanA, InMask)
         /\ keptY = keptA

\* ------------------------------------------------------------------
\* The two calling modes of simple_optical_flow
\* ------------------------------------------------------------------

\* What the call with the single sample point k returns (lines 147-148
\* for a window with variation, the zeros of line 115 for a flat one)
SingleCallResults(k) ==
    IF flatIt[k]
      THEN {<<0, 0, 0, 0>>}
      ELSE {<<nu[2], nu[1], epsilon[2], epsilon[1]>> :
               nu \in Velocities, epsilon \in Eigenvalues}

\* C25: the call with a grid of sample points completes, and the values
\* it returns at a sample point, (Ugrd, Vgrd, Ueig, Veig), are those the
\* call with that single point returns.
C25_GridCallEqualsSingleCall ==
    sampleNdim > 1
      => /\ spc # "raised"
         /\ spc = "done"
              => \A k \in 1..Len(flatIt) : ReturnedAt(k) \in SingleCallResults(k)

\* ------------------------------------------------------------------
\* medianFilShadows(M, siz, loop) and iterative_median_filter(I, tsize, loop)
\* ------------------------------------------------------------------
\* The image is one row of intensities, a sequence; with one row the
\* siz x siz window of ndimage.median_filter holds each of the siz
\* columns siz times, and its median is that of the siz columns.

RowImages == UNION {[1..n -> 0..1] : n \in 1..MedCols}
WindowSizes == {1, 3}

\* mode='reflect', the default of ndimage.median_filter: (b a | a b c | c b)
Reflect(j, n) == IF j < 1 THEN 1 - j ELSE IF j > n THEN 2 * n + 1 - j ELSE j

\* The median of a window of odd length
MedianOf(w) ==
    CHOOSE v \in {w[k] : k \in DOMAIN w} :
        /\ Cardinality({k \in DOMAIN w : w[k] < v}) <= Len(w) \div 2
        /\ Cardinality({k \in DOMAIN w : w[k] > v}) <= Len(w) \div 2

\* ndimage.median_filter(img, size=s)
MedianFilter(img, s) ==
    [k \in 1..Len(img) |->
        MedianOf([d \in 1..s |-> img[Reflect(k + d - 1 - (s \div 2), Len(img))]])]

MedianInit ==
    /\ medFunc \in {"medianFilShadows", "iterative_median_filter"}
    /\ medIn \in RowImages
    /\ siz \in WindowSizes
    /\ loop \in 0..MaxLoop
    /\ medI = 0
    /\ Mmed = medIn
    /\ mpc = "loop"
    /\ ValleyIdle
    /\ LabelerIdle
    /\ IdsIdle
    /\ RidgeIdle
    /\ ListIdle
    /\ AffineIdle
    /\ SimpleIdle
    /\ EnhanceIdle
    /\ HoughIdle
    /\ SamplesIdle
    /\ L0Idle

\* shadow_geometry.py lines 67-68: Mmed = ndimage.median_filter(M, size=siz)
MedianFilShadowsPass ==
    /\ mpc = "loop"
    /\ medFunc = "medianFilShadows"
    /\ medI < loop
    /\ Mmed' = MedianFilter(medIn, siz)
    /\ medI' = medI + 1
    /\ UNCHANGED <<medFunc, medIn, siz, loop, mpc>>
    /\ UNCHANGED exceptMedian

\* shadow_filters.py lines 182-183: I = ndimage.median_filter(I, size=tsize)
IterativeMedianPass ==
    /\ mpc = "loop"
    /\ medFunc = "iterative_median_filter"
    /\ medI < loop
    /\ Mmed' = MedianFilter(Mmed, siz)
    /\ medI' = medI + 1
    /\ UNCHANGED <<medFunc, medIn, siz, loop, mpc>>
    /\ UNCHANGED exceptMedian

\* return Mmed, resp. return I
MedianReturn ==
    /\ mpc = "loop"
    /\ medI = loop
    /\ mpc' = "done"
    /\ UNCHANGED <<medFunc, medIn, siz, loop, medI, Mmed>>
    /\ UNCHANGED exceptMedian

MedianNext ==
    \/ MedianFilShadowsPass
    \/ IterativeMedianPass
    \/ MedianReturn

SpecMedian == MedianInit /\ [][MedianNext]_vars

\* The median filter applied n times in succession
RECURSIVE Passes(_, _, _)
Passes(img, s, n) == IF n = 0 THEN img ELSE MedianFilter(Passes(img, s, n - 1), s)

\* C26: medianFilShadows(M, siz, loop) returns the median filter applied
\* loop times in succession, each pass on the output of the pass before,
\* which is what iterative_median_filter returns; with loop = 0 it
\* returns M unchanged.
C26_MedianFilShadowsIterates ==
    mpc = "done"
      => /\ Mmed = Passes(medIn, siz, loop)
         /\ loop = 0 => Mmed = medIn

\* ------------------------------------------------------------------
\* L0_smoothing(I, lamb, kappa, beta_max), as enhance_shadows calls it
\* ------------------------------------------------------------------
\* lamb and beta are kept in hundredths and kappa in halves; the image is
\* left out, the loop of lines 452-477 takes its course from beta alone.

\* beta_max = 1E5, in hundredths
BetaMax == 10000000

\* The magnitude from which a negative beta counts as -inf
FloatMax == 100000000

\* enhance_shadows lines 57-58: lamb and kappa are the caller's, or the
\* defaults 2E-2 and 2.
LambSet == (-MaxLamb)..MaxLamb
KappaSet == 0..MaxKappa

L0Init ==
    /\ lamb \in LambSet
    /\ kappa \in KappaSet
    /\ beta = 2 * lamb
    /\ l0pc = "test"
    /\ ValleyIdle
    /\ LabelerIdle
    /\ IdsIdle
    /\ RidgeIdle
    /\ ListIdle
    /\ AffineIdle
    /\ SimpleIdle
    /\ EnhanceIdle
    /\ HoughIdle
    /\ SamplesIdle
    /\ MedianIdle

\* Line 452: while beta < beta_max, true
L0Enter ==
    /\ l0pc = "test"
    /\ beta < BetaMax
    /\ l0pc' = "body"
    /\ UNCHANGED <<lamb, kappa, beta>>
    /\ UNCHANGED exceptL0

\* Line 452 false, line 478: return I
L0Return ==
    /\ l0pc = "test"
    /\ beta >= BetaMax
    /\ l0pc' = "done"
    /\ UNCHANGED <<lamb, kappa, beta>>
    /\ UNCHANGED exceptL0

\* A float that leaves the range of the doubles becomes -inf and stays
\* it; -FloatMax stands for -inf
Saturate(b) == IF b < -FloatMax THEN -FloatMax ELSE b

\* Lines 453-477: one pass, beta *= kappa
L0Pass ==
    /\ l0pc = "body"
    /\ beta' = Saturate((beta * kappa) \div 2)
    /\ l0pc' = "test"
    /\ UNCHANGED <<lamb, kappa>>
    /\ UNCHANGED exceptL0

\* Line 458: lamb/beta with beta = 0 raises ZeroDivisionError when lamb
\* and beta are Python numbers (numpy scalars give inf or nan and go on,
\* which is L0Pass)
L0DivideRaises ==
    /\ l0pc = "body"
    /\ beta = 0
    /\ l0pc' = "raised"
    /\ UNCHANGED <<lamb, kappa, beta>>
    /\ UNCHANGED exceptL0

L0Next ==
    \/ L0Enter
    \/ L0Return
    \/ L0Pass
    \/ L0DivideRaises

SpecL0 == L0Init /\ [][L0Next]_vars

\* The loop is sequential code: a pass that can be taken is taken
SpecL0Fair == SpecL0 /\ WF_vars(L0Next)

\* C27: L0_smoothing terminates for every lamb and kappa that
\* enhance_shadows passes to it: its loop makes a finite number of passes,
\* also for kappa <= 1 or lamb <= 0.
C27_L0SmoothingTerminates == <>(l0pc \in {"done", "raised"})

====
